---- MODULE Spec2Model ----
(***************************************************************************)
(* Share-ledger balance engine of professional-stock-ledger.               *)
(*                                                                         *)
(* The model follows src/api/netlify-functions/ledger.js: the three write  *)
(* handlers (issue-shares, transfer-shares, cancel-shares), every storage  *)
(* round trip they await, and the connection pool of utils/db.js through   *)
(* which every statement, BEGIN/COMMIT/ROLLBACK included, is sent.         *)
(*                                                                         *)
(* Storage is PostgreSQL behind a pg-style Pool: pool.query() checks out   *)
(* an idle client (the most recently released one), or opens a new one     *)
(* when none is idle, runs ONE statement on it and releases it.  A         *)
(* transaction is a property of a client, not of a handler invocation.     *)
(***************************************************************************)
EXTENDS Integers, Sequences, FiniteSets, TLC

\* ---------------------------------------------------------------- bounds
MaxRows == 2            \* requests are accepted while fewer than MaxRows ids were handed out
MaxFaults == 1          \* injected storage errors / platform timeouts per behaviour
MaxCreated == 3         \* shareholders are created while fewer than MaxCreated ids were handed out

Procs == {1, 2}         \* handler invocations that may be in flight together
Clients == {1, 2}       \* pool clients; never more are needed than invocations in flight
Quantities == {1, 2}
Dates == {1, 2}

Null == "NULL"          \* SQL NULL / JS null for text columns
NoId == 0               \* SQL NULL for integer columns

\* ---------------------------------------------------------------- JSON values
Undef == [t |-> "undef", n |-> 0]
Num(n) == [t |-> "num", n |-> n]
Str(n) == [t |-> "str", n |-> n]       \* the string holding the decimal digits of n
Text == [t |-> "text", n |-> 0]        \* a non-numeric string such as "abc"

\* !x
Falsy(x) == x.t = "undef" \/ (x.t = "num" /\ x.n = 0)

\* String(x): 1 and "1" have the same text
JsString(x) == IF x.t \in {"num", "str"} THEN <<"digits", x.n>> ELSE <<x.t, 0>>

\* the integer a driver parameter is cast to by the database
DbInt(x) == IF x.t \in {"num", "str"} THEN x.n ELSE NoId

\* Number(x), then Number.isFinite
toNumber(x) == IF x.t \in {"num", "str"} THEN [ok |-> TRUE, n |-> x.n]
               ELSE [ok |-> FALSE, n |-> 0]

\* String(x ?? '').trim().toUpperCase()
upper(x) == CASE x = "common" -> "COMMON"
              [] x = " COMMON " -> "COMMON"
              [] x = "preferred" -> "PREFERRED"
              [] x = Null -> ""
              [] OTHER -> x

\* only a missing series becomes null; the empty string is kept
normalizeSeriesMissingOnly(x) == IF x = Null THEN Null ELSE x

\* String(x ?? '').trim(), '' becomes null
normalizeSeries(x) == CASE x = "" -> Null
                        [] x = " " -> Null
                        [] x = " A " -> "A"
                        [] OTHER -> x

\* ---------------------------------------------------------------- static tables
\* users joined with entities, as read by authenticateUser
users == [u \in {1, 2, 3} |->
            IF u = 1 THEN [id |-> 1, role |-> "ADMIN", entity_id |-> 1, is_active |-> TRUE]
            ELSE IF u = 2
                 THEN [id |-> 2, role |-> "USER", entity_id |-> 1, is_active |-> TRUE]
                 ELSE [id |-> 3, role |-> "SUPER_ADMIN", entity_id |-> 1,
                       is_active |-> TRUE]]

VARIABLES
    share_transactions,        \* committed rows of the share_transactions table
    nextId,                    \* share_transactions_id_seq
    shareholders,              \* rows of the shareholders table
    shareholders_id_seq,       \* next value of the shareholders id sequence
    entity_stock_types,        \* rows of entity_stock_types
    entity_stock_type_series,  \* rows of entity_stock_type_series
    idle,                      \* the pool's stack of idle clients
    conn,                      \* per client: transaction status and uncommitted rows
    proc,                      \* per handler invocation: request, position, locals, response
    faults                     \* storage errors and timeouts injected so far

vars == <<share_transactions, nextId, shareholders, shareholders_id_seq, entity_stock_types,
          entity_stock_type_series, idle, conn, proc, faults>>

tables == <<shareholders, shareholders_id_seq, entity_stock_types, entity_stock_type_series>>

\* ---------------------------------------------------------------- helpers
RECURSIVE SumShares(_)
SumShares(rows) ==
    IF rows = {} THEN 0
    ELSE LET r == CHOOSE x \in rows : TRUE
         IN r.shares + SumShares(rows \ {r})

\* SQL '=' on nullable text: NULL = anything is not true
SqlEq(a, b) == a # Null /\ b # Null /\ a = b

\* rows a statement run on client c can see: committed rows and the
\* uncommitted rows of the transaction open on c
Visible(c) == share_transactions \cup conn[c].pending

\* WHERE st.shareholder_id = $1 AND st.stock_type = $2
\*   AND (($3::text IS NULL AND st.series IS NULL) OR (st.series = $3::text))
KeyRows(rows, sh, st, series) ==
    {r \in rows : /\ r.shareholder_id = sh
                  /\ r.stock_type = st
                  /\ ((series = Null /\ r.series = Null) \/ SqlEq(r.series, series))}

\* the sum of all the shareholder's rows, whatever their stock type and series
\* (the current_shares of the shareholder list)
AvailableSharesOfHolder(rows, sh, st, series) ==
    SumShares({r \in rows : r.shareholder_id = sh})

\* SELECT COALESCE(SUM(st.shares), 0) AS available_shares
AvailableShares(rows, sh, st, series) == SumShares(KeyRows(rows, sh, st, series))

\* the entity taken from the request body whatever the caller's role
resolveSuppliedEntityId(user, providedEntityId) ==
    IF providedEntityId # NoId THEN providedEntityId ELSE user.entity_id

resolveTargetEntityId(user, providedEntityId) ==
    IF user.role = "SUPER_ADMIN"
    THEN (IF providedEntityId # NoId THEN providedEntityId ELSE user.entity_id)
    ELSE user.entity_id

requireRole(allowedRoles, user) == user.role \in allowedRoles

\* ---------------------------------------------------------------- requests
WriteRoles == {"SUPER_ADMIN", "ADMIN"}

Req(action, token, sh, from, to, date, st, series, shares) ==
    [action |-> action, token |-> token, shareholder_id |-> sh,
     from_shareholder_id |-> from, to_shareholder_id |-> to,
     transaction_date |-> date, stock_type |-> st, series |-> series,
     shares |-> shares, entity_id |-> NoId, full_name |-> "", external_id |-> Null]

TypeSeries == {<<"COMMON", Null>>, <<"PREFERRED", "A">>}

\* well-formed requests of an ADMIN of entity 1
IssueRequests ==
    {Req("issue-shares", 1, Num(s), Undef, Undef, d, ts[1], ts[2], Num(q)) :
        s \in {1, 2}, d \in Dates, ts \in TypeSeries, q \in Quantities}

CancelRequests ==
    {Req("cancel-shares", 1, Num(s), Undef, Undef, d, ts[1], ts[2], Num(q)) :
        s \in {1, 2}, d \in Dates, ts \in TypeSeries, q \in Quantities}

TransferRequests ==
    {Req("transfer-shares", 1, Undef, Num(f), Num(t), d, ts[1], ts[2], Num(q)) :
        f \in {1, 2}, t \in {1, 2}, d \in Dates, ts \in TypeSeries, q \in Quantities}

\* requests that depart from a well-formed one in the caller, a field, the
\* shareholder, the stock type or the series
OddIssueCancel ==
    {Req(a, 1, Num(1), Undef, Undef, 1, ts[1], ts[2], Num(1)) :
        a \in {"issue-shares", "cancel-shares"},
        ts \in {<<"common", "">>, <<"WARRANT", Null>>, <<"OPTION", Null>>, <<"", Null>>,
                <<"PREFERRED", Null>>, <<"PREFERRED", "">>, <<"PREFERRED", " A ">>,
                <<"PREFERRED", "B">>, <<"PREFERRED", "C">>, <<"COMMON", "A">>}}
    \cup {Req(a, 1, Num(1), Undef, Undef, 1, "COMMON", Null, q) :
        a \in {"issue-shares", "cancel-shares"},
        q \in {Undef, Num(0), Text, Str(1)}}
    \cup {Req(a, 1, s, Undef, Undef, 1, "COMMON", Null, Num(1)) :
        a \in {"issue-shares", "cancel-shares"},
        s \in {Undef, Num(3), Num(4), Num(5), Str(1)}}
    \cup {Req(a, tok, Num(1), Undef, Undef, d, "COMMON", Null, Num(1)) :
        a \in {"issue-shares", "cancel-shares"},
        tok \in {0, 1, 2}, d \in {0, 1}}

OddTransfer ==
    {Req("transfer-shares", tok, Undef, Num(1), t, d, "COMMON", Null, q) :
        tok \in {0, 1, 2}, t \in {Num(1), Str(1), Num(2)}, d \in {0, 1},
        q \in {Num(1), Num(0)}}
    \cup {Req("transfer-shares", 1, Undef, f, t, 1, "COMMON", Null, Num(1)) :
        f \in {Num(1), Undef, Num(3), Num(5)},
        t \in {Num(2), Undef, Num(3), Num(4), Num(5)}}
    \cup {Req("transfer-shares", 1, Undef, Num(1), Num(2), 1, ts[1], ts[2], q) :
        ts \in {<<"WARRANT", Null>>, <<"PREFERRED", Null>>, <<"PREFERRED", "B">>,
                <<"COMMON", "A">>},
        q \in {Num(1), Text}}

Requests == IssueRequests \cup CancelRequests \cup TransferRequests
            \cup OddIssueCancel \cup OddTransfer

\* requests submitted while other requests are in flight
ConcRequests ==
    {Req("issue-shares", 1, Num(1), Undef, Undef, 1, "PREFERRED", "A", Num(1)),
     Req("cancel-shares", 1, Num(1), Undef, Undef, 1, "PREFERRED", "A", Num(1)),
     Req("transfer-shares", 1, Undef, Num(1), Num(2), 1, "PREFERRED", "A", Num(1))}

\* ---------------------------------------------------------------- responses
\* the query parameters of an ownership report; NoId is an absent filter
ReportParams(entity_stock_type_id, entity_stock_series_id, status) ==
    [entity_stock_type_id |-> entity_stock_type_id,
     entity_stock_series_id |-> entity_stock_series_id, status |-> status]

\* the body of a response that carries no report
NoReport == [params |-> ReportParams(NoId, NoId, "none"), columns |-> << >>,
             shareholders |-> {}, holdings |-> << >>, total_shares |-> << >>,
             column_totals |-> << >>, grand_total |-> 0]

NoResp == [status |-> 0, kind |-> "none", available |-> 0, requested |-> 0, rows |-> {},
           report |-> NoReport]
Err(status, kind) == [NoResp EXCEPT !.status = status, !.kind = kind]

\* a failed statement answered with the message of a validation error
StorageErrorAsInvalidType == Err(500, "InvalidStockType")

\* catch (e): 500 with 'Failed to ...: Database error: ...'
StorageError == Err(500, "ServerError")

NoV == [stock_type_id |-> NoId, stock_type |-> Null, supports_series |-> FALSE, series |-> Null]
NoReq == Req("none", 0, Undef, Undef, Undef, 0, "", Null, Undef)

IdleProc == [pc |-> "idle", req |-> NoReq, cl |-> NoId, ent |-> NoId, v |-> NoV,
             avail |-> 0, ret |-> NoId, nw |-> 0, resp |-> NoResp]

QueryPcs == {"auth", "holder", "type", "series", "avail", "begin", "out", "in",
             "commit", "rollback", "insert", "count", "deactivate", "delete",
             "read", "detail"}

FreshConn == [st |-> "none", pending |-> {}]

Init ==
    /\ share_transactions = {}
    /\ nextId = 1
    /\ shareholders = {[id |-> 1, entity_id |-> 1, is_active |-> TRUE],
                       [id |-> 2, entity_id |-> 1, is_active |-> TRUE],
                       [id |-> 3, entity_id |-> 1, is_active |-> FALSE],
                       [id |-> 5, entity_id |-> 2, is_active |-> TRUE]}
    /\ shareholders_id_seq = 6
    /\ entity_stock_types =
          {[id |-> 1, entity_id |-> 1, stock_type |-> "COMMON",
            supports_series |-> FALSE, is_active |-> TRUE],
           [id |-> 2, entity_id |-> 1, stock_type |-> "PREFERRED",
            supports_series |-> TRUE, is_active |-> TRUE],
           [id |-> 3, entity_id |-> 1, stock_type |-> "WARRANT",
            supports_series |-> FALSE, is_active |-> FALSE]}
    /\ entity_stock_type_series =
          {[id |-> 1, entity_stock_type_id |-> 2, series |-> "A", is_active |-> TRUE],
           [id |-> 2, entity_stock_type_id |-> 2, series |-> "B", is_active |-> FALSE]}
    /\ idle = << >>
    /\ conn = [c \in Clients |-> FreshConn]
    /\ proc = [p \in Procs |-> IdleProc]
    /\ faults = 0

\* ---------------------------------------------------------------- the pool
\* clients checked out by an invocation that is waiting for its statement
Busy == {proc[p].cl : p \in Procs} \ {NoId}

InIdle(c) == \E i \in 1..Len(idle) : idle[i] = c

\* pool.query(): the most recently released idle client, or a new client when
\* none is idle (max: 20 is never reached by the invocations modelled)
PoolClient ==
    IF idle # << >> THEN idle[Len(idle)]
    ELSE CHOOSE c \in Clients : c \notin Busy /\ \A d \in Clients : d \notin Busy => c <= d

Aborted(c) == conn[c].st = "aborted"

\* ---------------------------------------------------------------- synchronous checks
\* the GET actions of the ledger function
ReadActions == {"shareholders", "shareholder", "transactions", "ownership"}

sharesNum(req) == toNumber(req.shares).n

BadShares(req) == ~toNumber(req.shares).ok \/ toNumber(req.shares).n <= 0

MissingIssueFields(req) ==
    \/ Falsy(req.shareholder_id)
    \/ req.transaction_date = 0
    \/ req.stock_type = ""
    \/ req.shares = Undef

MissingTransferFields(req) ==
    \/ Falsy(req.from_shareholder_id)
    \/ Falsy(req.to_shareholder_id)
    \/ req.transaction_date = 0
    \/ req.stock_type = ""
    \/ req.shares = Undef

\* from_shareholder_id === to_shareholder_id, without String()
SameShareholderStrict(req) == req.from_shareholder_id = req.to_shareholder_id

\* String(from_shareholder_id) === String(to_shareholder_id)
SameShareholder(req) == JsString(req.from_shareholder_id) = JsString(req.to_shareholder_id)

\* the code of a handler between authMiddleware and its first query: the
\* response it returns there, or NoResp when it goes on to storage
SyncChecks(req, user) ==
    IF req.action \in ReadActions
    THEN IF req.action = "shareholder"
         THEN IF Falsy(req.shareholder_id) THEN Err(400, "RequiredFields") ELSE NoResp
         ELSE IF resolveTargetEntityId(user, req.entity_id) = NoId
              THEN Err(400, "EntityNotResolved")
         ELSE NoResp
    ELSE IF req.action = "delete-shareholder"
    THEN IF ~requireRole({"SUPER_ADMIN"}, user) THEN Err(403, "Forbidden")
         ELSE IF Falsy(req.shareholder_id) THEN Err(400, "RequiredFields")
         ELSE NoResp
    ELSE IF ~requireRole(WriteRoles, user) THEN Err(403, "Forbidden")
    ELSE IF req.action = "transfer-shares"
    THEN IF MissingTransferFields(req) THEN Err(400, "RequiredFields")
         ELSE IF SameShareholder(req) THEN Err(400, "SelfTransfer")
         ELSE IF BadShares(req) THEN Err(400, "SharesNotPositive")
         ELSE IF resolveTargetEntityId(user, req.entity_id) = NoId
              THEN Err(400, "EntityNotResolved")
         ELSE NoResp
    ELSE IF MissingIssueFields(req) THEN Err(400, "RequiredFields")
         ELSE IF BadShares(req) THEN Err(400, "SharesNotPositive")
         ELSE IF resolveTargetEntityId(user, req.entity_id) = NoId
              THEN Err(400, "EntityNotResolved")
         ELSE NoResp

Finish(me, resp) == [me EXCEPT !.cl = NoId, !.pc = "done", !.resp = resp]

\* the balance check of a transfer run on the receiver
HolderOrReceiver(req) == IF req.action = "transfer-shares" THEN DbInt(req.to_shareholder_id)
                         ELSE DbInt(req.shareholder_id)

\* the debited shareholder of a transfer or cancellation, the credited one of an issuance
Holder(req) == IF req.action = "transfer-shares" THEN DbInt(req.from_shareholder_id)
               ELSE DbInt(req.shareholder_id)

Row(id, me, sh, shares, ttype) ==
    [id |-> id, entity_id |-> me.ent, shareholder_id |-> sh,
     transaction_date |-> me.req.transaction_date,
     stock_type |-> me.v.stock_type, series |-> me.v.series,
     shares |-> shares, transaction_type |-> ttype,
     from_shareholder_id |->
        IF ttype = "TRANSFER" THEN DbInt(me.req.from_shareholder_id) ELSE NoId,
     to_shareholder_id |->
        IF ttype = "TRANSFER" THEN DbInt(me.req.to_shareholder_id) ELSE NoId]

\* the OUT entry written with the unsigned quantity
OutRowUnsigned(id, me) ==
    Row(id, me, DbInt(me.req.from_shareholder_id), sharesNum(me.req), "TRANSFER")

\* OUT entry (negative): the sender's row of a transfer
OutRow(id, me) ==
    Row(id, me, DbInt(me.req.from_shareholder_id), 0 - sharesNum(me.req), "TRANSFER")

\* the IN entry written with the OUT entry's owner
InRowOfSender(id, me) ==
    Row(id, me, DbInt(me.req.from_shareholder_id), sharesNum(me.req), "TRANSFER")

\* IN entry (positive): the receiver's row of a transfer
InRow(id, me) ==
    Row(id, me, DbInt(me.req.to_shareholder_id), sharesNum(me.req), "TRANSFER")

IssuanceRow(id, me) ==
    Row(id, me, DbInt(me.req.shareholder_id), sharesNum(me.req), "ISSUANCE")

\* the cancellation written with the unsigned quantity
CancellationRowUnsigned(id, me) ==
    Row(id, me, DbInt(me.req.shareholder_id), sharesNum(me.req), "CANCELLATION")

CancellationRow(id, me) ==
    Row(id, me, DbInt(me.req.shareholder_id), 0 - sharesNum(me.req), "CANCELLATION")

\* a check that only asks whether the holder has any share
InsufficientIfNone(availableShares, req) == availableShares <= 0

\* if (availableShares < sharesNum)
Insufficient(availableShares, req) == availableShares < sharesNum(req)

\* ---------------------------------------------------------------- actions
\* A request arrives.  authMiddleware rejects a bad token before any query.
Submit(p, req) ==
    /\ proc[p].pc = "idle"
    /\ nextId <= MaxRows
    /\ proc' = [proc EXCEPT ![p] =
          IF req.token \notin DOMAIN users
          THEN Finish([IdleProc EXCEPT !.req = req], Err(401, "Unauthorized"))
          ELSE [IdleProc EXCEPT !.req = req, !.pc = "auth"]]
    /\ UNCHANGED <<share_transactions, nextId, tables, idle, conn, faults>>

\* requests arriving at any time, also while others are in flight
SubmitAny == \E p \in Procs, req \in ConcRequests : Submit(p, req)

\* requests executed one at a time
SubmitOne ==
    /\ \A p \in Procs : proc[p].pc = "idle"
    /\ \E req \in Requests : Submit(1, req)

\* query(): pool.query checks a client out for the next statement
Acquire(p) ==
    /\ proc[p].pc \in QueryPcs
    /\ proc[p].cl = NoId
    /\ proc' = [proc EXCEPT ![p].cl = PoolClient]
    /\ idle' = IF idle # << >> THEN SubSeq(idle, 1, Len(idle) - 1) ELSE idle
    /\ UNCHANGED <<share_transactions, nextId, tables, conn, faults>>

\* the first statement of a handler after authMiddleware
FirstQuery(req) ==
    IF req.action \in ReadActions THEN "read"
    ELSE IF req.action = "delete-shareholder" THEN "count" ELSE "holder"

\* authenticateUser's SELECT, then the handler up to its first query
ExecAuth(p) ==
    LET me == proc[p]
        c == me.cl
        u == users[me.req.token]
        r == SyncChecks(me.req, u)
    IN /\ me.pc = "auth"
       /\ c # NoId
       /\ idle' = Append(idle, c)
       /\ proc' = [proc EXCEPT ![p] =
             IF Aborted(c) \/ ~u.is_active THEN Finish(me, Err(401, "Unauthorized"))
             ELSE IF r # NoResp THEN Finish(me, r)
             ELSE [me EXCEPT !.cl = NoId, !.pc = FirstQuery(me.req),
                             !.ent = resolveTargetEntityId(u, me.req.entity_id)]]
       /\ UNCHANGED <<share_transactions, nextId, tables, conn, faults>>

\* a lookup that leaves out the entity
ActiveHoldersAnywhere(ids, entity_id) ==
    {s \in shareholders : s.id \in ids /\ s.is_active}

\* SELECT id FROM shareholders WHERE id = $1 / id IN ($1,$2)
\*   AND entity_id = $2 AND is_active = TRUE
ActiveHolders(ids, entity_id) ==
    {s \in shareholders : s.id \in ids /\ s.entity_id = entity_id /\ s.is_active}

\* the shareholder lookup of a handler and its 404
ExecHolder(p) ==
    LET me == proc[p]
        c == me.cl
        ids == IF me.req.action = "transfer-shares"
               THEN {DbInt(me.req.from_shareholder_id), DbInt(me.req.to_shareholder_id)}
               ELSE {DbInt(me.req.shareholder_id)}
        rows == ActiveHolders(ids, me.ent)
        want == IF me.req.action = "transfer-shares" THEN 2 ELSE 1
    IN /\ me.pc = "holder"
       /\ c # NoId
       /\ idle' = Append(idle, c)
       /\ proc' = [proc EXCEPT ![p] =
             IF Aborted(c) THEN Finish(me, StorageError)
             ELSE IF Cardinality(rows) # want THEN Finish(me, Err(404, "ShareholderNotFound"))
             ELSE [me EXCEPT !.cl = NoId, !.pc = "type"]]
       /\ UNCHANGED <<share_transactions, nextId, tables, conn, faults>>

\* a validation that never looks at is_active
InactiveIgnored(row) == FALSE

\* typeRow.is_active === false, sRes.rows[0].is_active === false
Inactive(row) == ~row.is_active

\* every handler running the available-shares check
AfterValidationChecked(req) == "avail"

\* issue-shares goes from validation to its INSERT, the others to the balance check
AfterValidation(req) == IF req.action = "issue-shares" THEN "insert" ELSE "avail"

\* validateStockTypeAndSeries, up to and including the stock type query
ExecType(p) ==
    LET me == proc[p]
        c == me.cl
        st == upper(me.req.stock_type)
        tRes == {t \in entity_stock_types : t.entity_id = me.ent /\ t.stock_type = st}
        typeRow == CHOOSE t \in tRes : TRUE
        normSeries == normalizeSeries(me.req.series)
    IN /\ me.pc = "type"
       /\ c # NoId
       /\ idle' = Append(idle, c)
       /\ proc' = [proc EXCEPT ![p] =
             IF Aborted(c) THEN Finish(me, StorageError)
             ELSE IF tRes = {} THEN Finish(me, Err(500, "InvalidStockType"))
             ELSE IF Inactive(typeRow) THEN Finish(me, Err(500, "InactiveStockType"))
             ELSE IF typeRow.supports_series
                  THEN IF normSeries = Null THEN Finish(me, Err(500, "SeriesRequired"))
                       ELSE [me EXCEPT !.cl = NoId, !.pc = "series",
                                !.v = [stock_type_id |-> typeRow.id,
                                       stock_type |-> typeRow.stock_type,
                                       supports_series |-> TRUE, series |-> normSeries]]
             ELSE IF normSeries # Null THEN Finish(me, Err(500, "SeriesNotAllowed"))
             ELSE [me EXCEPT !.cl = NoId, !.pc = AfterValidation(me.req),
                             !.v = [stock_type_id |-> typeRow.id,
                                    stock_type |-> typeRow.stock_type,
                                    supports_series |-> FALSE, series |-> Null]]]
       /\ UNCHANGED <<share_transactions, nextId, tables, conn, faults>>

\* validateStockTypeAndSeries, the series query
ExecSeries(p) ==
    LET me == proc[p]
        c == me.cl
        sRes == {s \in entity_stock_type_series :
                    s.entity_stock_type_id = me.v.stock_type_id /\ s.series = me.v.series}
        sRow == CHOOSE s \in sRes : TRUE
    IN /\ me.pc = "series"
       /\ c # NoId
       /\ idle' = Append(idle, c)
       /\ proc' = [proc EXCEPT ![p] =
             IF Aborted(c) THEN Finish(me, StorageError)
             ELSE IF sRes = {} THEN Finish(me, Err(500, "InvalidSeries"))
             ELSE IF Inactive(sRow) THEN Finish(me, Err(500, "InactiveSeries"))
             ELSE [me EXCEPT !.cl = NoId, !.pc = AfterValidation(me.req)]]
       /\ UNCHANGED <<share_transactions, nextId, tables, conn, faults>>

\* the available-shares query and the comparison with the requested quantity
ExecAvail(p) ==
    LET me == proc[p]
        c == me.cl
        availableShares == AvailableShares(Visible(c), Holder(me.req),
                                           me.v.stock_type, me.v.series)
    IN /\ me.pc = "avail"
       /\ c # NoId
       /\ idle' = Append(idle, c)
       /\ proc' = [proc EXCEPT ![p] =
             IF Aborted(c) THEN Finish(me, StorageError)
             ELSE IF Insufficient(availableShares, me.req)
                  THEN Finish(me, [Err(400, "InsufficientShares") EXCEPT
                                      !.available = availableShares,
                                      !.requested = sharesNum(me.req)])
             ELSE [me EXCEPT !.cl = NoId, !.avail = availableShares,
                             !.pc = IF me.req.action = "transfer-shares"
                                    THEN "begin" ELSE "insert"]]
       /\ UNCHANGED <<share_transactions, nextId, tables, conn, faults>>

\* INSERT INTO share_transactions on client c: inside the transaction open on
\* c the row stays uncommitted, otherwise the statement commits by itself
Insert(c, row) ==
    /\ nextId' = nextId + 1
    /\ IF conn[c].st = "txn"
       THEN /\ conn' = [conn EXCEPT ![c].pending = @ \cup {row}]
            /\ UNCHANGED share_transactions
       ELSE /\ share_transactions' = share_transactions \cup {row}
            /\ UNCHANGED conn

\* the constraints of the share_transactions table: the foreign keys to
\* shareholders and the three CHECK clauses
RowAllowed(row) ==
    /\ \E s \in shareholders : s.id = row.shareholder_id
    /\ \A x \in {row.from_shareholder_id, row.to_shareholder_id} \ {NoId} :
          \E s \in shareholders : s.id = x
    /\ row.stock_type \in {"COMMON", "PREFERRED"}
    /\ row.transaction_type \in {"ISSUANCE", "TRANSFER", "CANCELLATION", "FORFEITURE",
                                 "CONVERSION"}
    /\ \/ row.transaction_type = "ISSUANCE" /\ row.from_shareholder_id = NoId
       \/ /\ row.transaction_type = "TRANSFER"
          /\ row.from_shareholder_id # NoId /\ row.to_shareholder_id # NoId
       \/ /\ row.transaction_type \in {"CANCELLATION", "FORFEITURE", "CONVERSION"}
          /\ row.to_shareholder_id = NoId
    /\ \/ row.stock_type = "PREFERRED" /\ row.series # Null
       \/ row.stock_type = "COMMON" /\ row.series = Null

\* the server refuses the INSERT of row on client c
Refused(c, row) == Aborted(c) \/ ~RowAllowed(row)

\* a statement that raises an error: nothing is written, and a transaction
\* open on the client is aborted.  Every statement sent to a client whose
\* transaction is aborted fails, and so does an INSERT that breaks a
\* constraint; other failures are injected storage errors.
StatementFails(c, row) ==
    /\ Refused(c, row) \/ faults < MaxFaults
    /\ faults' = IF Refused(c, row) THEN faults ELSE faults + 1
    /\ conn' = [conn EXCEPT ![c].st = IF @ = "txn" THEN "aborted" ELSE @]
    /\ UNCHANGED <<share_transactions, nextId>>

\* await query('BEGIN')
ExecBegin(p) ==
    LET me == proc[p]
        c == me.cl
    IN /\ me.pc = "begin"
       /\ c # NoId
       /\ idle' = Append(idle, c)
       /\ proc' = [proc EXCEPT ![p] =
             IF Aborted(c) THEN Finish(me, StorageError)
             ELSE [me EXCEPT !.cl = NoId, !.pc = "out"]]
       /\ conn' = [conn EXCEPT ![c].st = IF @ = "none" THEN "txn" ELSE @]
       /\ UNCHANGED <<share_transactions, nextId, tables, faults>>

\* OUT entry (negative)
ExecOut(p) ==
    LET me == proc[p]
        c == me.cl
        row == OutRow(nextId, me)
    IN /\ me.pc = "out"
       /\ c # NoId
       /\ idle' = Append(idle, c)
       /\ \/ /\ ~Refused(c, row)
             /\ Insert(c, row)
             /\ proc' = [proc EXCEPT ![p] = [me EXCEPT !.cl = NoId, !.pc = "in",
                                                      !.nw = @ + 1]]
             /\ UNCHANGED faults
          \/ /\ StatementFails(c, row)
             /\ proc' = [proc EXCEPT ![p] = [me EXCEPT !.cl = NoId, !.pc = "rollback"]]
       /\ UNCHANGED tables

\* IN entry (positive), RETURNING *
ExecIn(p) ==
    LET me == proc[p]
        c == me.cl
        row == InRow(nextId, me)
    IN /\ me.pc = "in"
       /\ c # NoId
       /\ idle' = Append(idle, c)
       /\ \/ /\ ~Refused(c, row)
             /\ Insert(c, row)
             /\ proc' = [proc EXCEPT ![p] = [me EXCEPT !.cl = NoId, !.pc = "commit",
                                                      !.nw = @ + 1, !.ret = row.id]]
             /\ UNCHANGED faults
          \/ /\ StatementFails(c, row)
             /\ proc' = [proc EXCEPT ![p] = [me EXCEPT !.cl = NoId, !.pc = "rollback"]]
       /\ UNCHANGED tables

\* await query('COMMIT'): commits the transaction open on the client it is
\* sent to; ends an aborted one as a rollback, without raising an error
ExecCommit(p) ==
    LET me == proc[p]
        c == me.cl
    IN /\ me.pc = "commit"
       /\ c # NoId
       /\ idle' = Append(idle, c)
       /\ share_transactions' = IF conn[c].st = "txn"
                                THEN share_transactions \cup conn[c].pending
                                ELSE share_transactions
       /\ conn' = [conn EXCEPT ![c] = FreshConn]
       /\ proc' = [proc EXCEPT ![p] =
             Finish(me, [NoResp EXCEPT !.status = 201, !.kind = "OK", !.rows = {me.ret}])]
       /\ UNCHANGED <<nextId, tables, faults>>

\* catch (e) { await query('ROLLBACK'); throw e; }
ExecRollback(p) ==
    LET me == proc[p]
        c == me.cl
    IN /\ me.pc = "rollback"
       /\ c # NoId
       /\ idle' = Append(idle, c)
       /\ conn' = [conn EXCEPT ![c] = FreshConn]
       /\ proc' = [proc EXCEPT ![p] = Finish(me, StorageError)]
       /\ UNCHANGED <<share_transactions, nextId, tables, faults>>

\* the single INSERT of issue-shares (+shares) and of cancel-shares (-shares)
ExecInsert(p) ==
    LET me == proc[p]
        c == me.cl
        row == IF me.req.action = "issue-shares"
               THEN IssuanceRow(nextId, me) ELSE CancellationRow(nextId, me)
    IN /\ me.pc = "insert"
       /\ c # NoId
       /\ idle' = Append(idle, c)
       /\ \/ /\ ~Refused(c, row)
             /\ Insert(c, row)
             /\ proc' = [proc EXCEPT ![p] =
                   Finish([me EXCEPT !.nw = @ + 1],
                          [NoResp EXCEPT !.status = 201, !.kind = "OK", !.rows = {row.id}])]
             /\ UNCHANGED faults
          \/ /\ StatementFails(c, row)
             /\ proc' = [proc EXCEPT ![p] = Finish(me, StorageError)]
       /\ UNCHANGED tables

\* the process serving the requests dies (function timeout, crash): every
\* invocation in flight ends without a response of its own, the pool is gone
\* and the server rolls back whatever transaction was open on its clients
Crash ==
    /\ \E p \in Procs : proc[p].pc \in QueryPcs
    /\ faults < MaxFaults
    /\ faults' = faults + 1
    /\ proc' = [p \in Procs |->
                  IF proc[p].pc \in QueryPcs THEN Finish(proc[p], Err(502, "Timeout"))
                  ELSE proc[p]]
    /\ idle' = << >>
    /\ conn' = [c \in Clients |-> FreshConn]
    /\ UNCHANGED <<share_transactions, nextId, tables>>

\* idleTimeoutMillis: 30000.  The pool closes a client that stayed idle that
\* long, and the server rolls back whatever transaction was open on it.  No
\* handler leaves 30 seconds between two of its statements, so this happens
\* only while no invocation is in flight.
IdleTimeout(c) ==
    /\ \A p \in Procs : proc[p].pc \notin QueryPcs
    /\ InIdle(c)
    /\ idle' = SelectSeq(idle, LAMBDA d : d # c)
    /\ conn' = [conn EXCEPT ![c] = FreshConn]
    /\ UNCHANGED <<share_transactions, nextId, tables, proc, faults>>

\* the response has been delivered and the invocation is over
Return(p) ==
    /\ proc[p].pc = "done"
    /\ proc' = [proc EXCEPT ![p] = IdleProc]
    /\ UNCHANGED <<share_transactions, nextId, tables, idle, conn, faults>>

Next ==
    \/ SubmitAny
    \/ \E p \in Procs : Acquire(p)
    \/ \E p \in Procs : ExecAuth(p)
    \/ \E p \in Procs : ExecHolder(p)
    \/ \E p \in Procs : ExecType(p)
    \/ \E p \in Procs : ExecSeries(p)
    \/ \E p \in Procs : ExecAvail(p)
    \/ \E p \in Procs : ExecBegin(p)
    \/ \E p \in Procs : ExecOut(p)
    \/ \E p \in Procs : ExecIn(p)
    \/ \E p \in Procs : ExecCommit(p)
    \/ \E p \in Procs : ExecRollback(p)
    \/ \E p \in Procs : ExecInsert(p)
    \/ Crash
    \/ \E c \in Clients : IdleTimeout(c)
    \/ \E p \in Procs : Return(p)

Spec == Init /\ [][Next]_vars

NextSeq ==
    \/ SubmitOne
    \/ \E p \in Procs : Acquire(p)
    \/ \E p \in Procs : ExecAuth(p)
    \/ \E p \in Procs : ExecHolder(p)
    \/ \E p \in Procs : ExecType(p)
    \/ \E p \in Procs : ExecSeries(p)
    \/ \E p \in Procs : ExecAvail(p)
    \/ \E p \in Procs : ExecBegin(p)
    \/ \E p \in Procs : ExecOut(p)
    \/ \E p \in Procs : ExecIn(p)
    \/ \E p \in Procs : ExecCommit(p)
    \/ \E p \in Procs : ExecRollback(p)
    \/ \E p \in Procs : ExecInsert(p)
    \/ Crash
    \/ \E c \in Clients : IdleTimeout(c)
    \/ \E p \in Procs : Return(p)

SpecSeq == Init /\ [][NextSeq]_vars

TypeOK ==
    /\ nextId \in Nat
    /\ shareholders_id_seq \in Nat
    /\ faults \in 0..MaxFaults
    /\ \A p \in Procs : proc[p].pc \in QueryPcs \cup {"idle", "done"}

\* ---------------------------------------------------------------- stock type taxonomy
\* stockTypes.js: each action runs on a client of its own, outside the pool,
\* and changes the taxonomy with a single INSERT or UPDATE.

\* user.role === "SUPER_ADMIN" or String(user.entity_id) === String(entityId)
canAccessEntity(user, entityId) ==
    /\ entityId # NoId
    /\ user.role = "SUPER_ADMIN" \/ user.entity_id = entityId

\* upsert-type with an id: UPDATE entity_stock_types SET stock_type,
\* display_name, supports_series, is_active WHERE id = $5.  The body repeats
\* the type's code; supports_series and is_active are what the body says.
UpsertType(u, id, supports_series, is_active) ==
    /\ \A p \in Procs : proc[p].pc = "idle"
    /\ \E chk \in entity_stock_types :
          chk.id = id /\ canAccessEntity(users[u], chk.entity_id)
    /\ entity_stock_types' =
          {IF t.id = id
           THEN [t EXCEPT !.supports_series = supports_series, !.is_active = is_active]
           ELSE t : t \in entity_stock_types}
    /\ UNCHANGED <<share_transactions, nextId, shareholders, shareholders_id_seq,
                   entity_stock_type_series,
                   idle, conn, proc, faults>>

\* toggle-type: UPDATE entity_stock_types SET is_active = $1 WHERE id = $2
ToggleType(u, id, is_active) ==
    /\ \A p \in Procs : proc[p].pc = "idle"
    /\ \E chk \in entity_stock_types :
          chk.id = id /\ canAccessEntity(users[u], chk.entity_id)
    /\ entity_stock_types' =
          {IF t.id = id THEN [t EXCEPT !.is_active = is_active] ELSE t :
              t \in entity_stock_types}
    /\ UNCHANGED <<share_transactions, nextId, shareholders, shareholders_id_seq,
                   entity_stock_type_series,
                   idle, conn, proc, faults>>

\* upsert-series without an id: INSERT INTO entity_stock_type_series, refused
\* for a type that does not support series and by UNIQUE(entity_stock_type_id,
\* series)
UpsertSeries(u, entity_stock_type_id, series) ==
    /\ \A p \in Procs : proc[p].pc = "idle"
    /\ \E t \in entity_stock_types :
          /\ t.id = entity_stock_type_id
          /\ canAccessEntity(users[u], t.entity_id)
          /\ t.supports_series
    /\ ~\E x \in entity_stock_type_series :
          x.entity_stock_type_id = entity_stock_type_id /\ x.series = series
    /\ entity_stock_type_series' = entity_stock_type_series \cup
          {[id |-> Cardinality(entity_stock_type_series) + 1,
            entity_stock_type_id |-> entity_stock_type_id,
            series |-> series, is_active |-> TRUE]}
    /\ UNCHANGED <<share_transactions, nextId, shareholders, shareholders_id_seq,
                   entity_stock_types,
                   idle, conn, proc, faults>>

\* toggle-series: UPDATE entity_stock_type_series SET is_active = $1 WHERE id = $2
ToggleSeries(u, id, is_active) ==
    /\ \A p \in Procs : proc[p].pc = "idle"
    /\ \E x \in entity_stock_type_series, t \in entity_stock_types :
          /\ x.id = id
          /\ t.id = x.entity_stock_type_id
          /\ canAccessEntity(users[u], t.entity_id)
    /\ entity_stock_type_series' =
          {IF x.id = id THEN [x EXCEPT !.is_active = is_active] ELSE x :
              x \in entity_stock_type_series}
    /\ UNCHANGED <<share_transactions, nextId, shareholders, shareholders_id_seq,
                   entity_stock_types,
                   idle, conn, proc, faults>>

\* ledger writes submitted between taxonomy changes
TaxRequests ==
    {Req("issue-shares", 1, Num(1), Undef, Undef, 1, ts[1], ts[2], Num(1)) :
        ts \in {<<"COMMON", Null>>, <<"COMMON", "A">>,
                <<"PREFERRED", "A">>, <<"PREFERRED", Null>>}}
    \cup {Req("cancel-shares", 1, Num(1), Undef, Undef, 1, "PREFERRED", "A", Num(1)),
          Req("transfer-shares", 1, Undef, Num(1), Num(2), 1, "COMMON", Null, Num(1))}

SubmitTax ==
    /\ \A p \in Procs : proc[p].pc = "idle"
    /\ \E req \in TaxRequests : Submit(1, req)

\* ledger writes one at a time, interleaved with taxonomy changes
NextTax ==
    \/ SubmitTax
    \/ \E p \in Procs : Acquire(p)
    \/ \E p \in Procs : ExecAuth(p)
    \/ \E p \in Procs : ExecHolder(p)
    \/ \E p \in Procs : ExecType(p)
    \/ \E p \in Procs : ExecSeries(p)
    \/ \E p \in Procs : ExecAvail(p)
    \/ \E p \in Procs : ExecBegin(p)
    \/ \E p \in Procs : ExecOut(p)
    \/ \E p \in Procs : ExecIn(p)
    \/ \E p \in Procs : ExecCommit(p)
    \/ \E p \in Procs : ExecRollback(p)
    \/ \E p \in Procs : ExecInsert(p)
    \/ Crash
    \/ \E c \in Clients : IdleTimeout(c)
    \/ \E p \in Procs : Return(p)
    \/ \E id \in {1, 2}, b \in BOOLEAN : UpsertType(1, id, b, TRUE)
    \/ \E b \in BOOLEAN : ToggleType(1, 2, b)
    \/ UpsertSeries(1, 1, "A")
    \/ \E b \in BOOLEAN : ToggleSeries(1, 1, b)

SpecTax == Init /\ [][NextTax]_vars

\* ---------------------------------------------------------------- delete-shareholder
\* handleDeleteShareholder: SELECT COUNT(*) FROM share_transactions WHERE
\* shareholder_id = $1
ExecCount(p) ==
    LET me == proc[p]
        c == me.cl
        cnt == Cardinality({r \in Visible(c) :
                               r.shareholder_id = DbInt(me.req.shareholder_id)})
    IN /\ me.pc = "count"
       /\ c # NoId
       /\ idle' = Append(idle, c)
       /\ proc' = [proc EXCEPT ![p] =
             IF Aborted(c) THEN Finish(me, StorageError)
             ELSE [me EXCEPT !.cl = NoId,
                             !.pc = IF cnt > 0 THEN "deactivate" ELSE "delete"]]
       /\ UNCHANGED <<share_transactions, nextId, tables, conn, faults>>

\* Soft delete only if transactions exist: UPDATE shareholders SET is_active =
\* FALSE WHERE id = $1
ExecDeactivate(p) ==
    LET me == proc[p]
        c == me.cl
        id == DbInt(me.req.shareholder_id)
    IN /\ me.pc = "deactivate"
       /\ c # NoId
       /\ idle' = Append(idle, c)
       /\ shareholders' = IF Aborted(c) THEN shareholders
                          ELSE {IF s.id = id THEN [s EXCEPT !.is_active = FALSE] ELSE s :
                                   s \in shareholders}
       /\ proc' = [proc EXCEPT ![p] =
             IF Aborted(c) THEN Finish(me, StorageError)
             ELSE Finish(me, [NoResp EXCEPT !.status = 200, !.kind = "Deactivated"])]
       /\ UNCHANGED <<share_transactions, nextId, shareholders_id_seq, entity_stock_types,
                      entity_stock_type_series, conn, faults>>

\* the rows that name shareholder id as the sender or the receiver of a
\* transfer and belong to another shareholder: from_shareholder_id and
\* to_shareholder_id reference shareholders(id) without ON DELETE CASCADE
HeldBack(id) ==
    {r \in share_transactions :
        r.shareholder_id # id /\ id \in {r.from_shareholder_id, r.to_shareholder_id}}

\* Hard delete if no transactions: DELETE FROM shareholders WHERE id = $1.
\* share_transactions.shareholder_id is declared ON DELETE CASCADE, so the
\* statement also removes the rows of the shareholder that were committed
\* after the count was taken.  It waits for an open transaction that has
\* inserted a row naming the shareholder.
ExecDelete(p) ==
    LET me == proc[p]
        c == me.cl
        id == DbInt(me.req.shareholder_id)
        fails == Aborted(c) \/ HeldBack(id) # {}
    IN /\ me.pc = "delete"
       /\ c # NoId
       /\ \A d \in Clients \ {c} : \A r \in conn[d].pending :
             id \notin {r.shareholder_id, r.from_shareholder_id, r.to_shareholder_id}
       /\ idle' = Append(idle, c)
       /\ shareholders' = IF fails THEN shareholders
                          ELSE {s \in shareholders : s.id # id}
       /\ share_transactions' = IF fails THEN share_transactions
                                ELSE {r \in share_transactions : r.shareholder_id # id}
       /\ conn' = [conn EXCEPT ![c].st = IF fails /\ @ = "txn" THEN "aborted" ELSE @,
                               ![c].pending = IF fails THEN @
                                              ELSE {r \in @ : r.shareholder_id # id}]
       /\ proc' = [proc EXCEPT ![p] =
             IF fails THEN Finish(me, StorageError)
             ELSE Finish(me, [NoResp EXCEPT !.status = 200, !.kind = "Deleted"])]
       /\ UNCHANGED <<nextId, shareholders_id_seq, entity_stock_types,
                      entity_stock_type_series, faults>>

\* an issuance and the deletion of its shareholder
DelRequests ==
    {Req("issue-shares", 1, Num(2), Undef, Undef, 1, "COMMON", Null, Num(1)),
     Req("delete-shareholder", 3, Num(2), Undef, Undef, 0, "", Null, Undef),
     Req("delete-shareholder", 1, Num(2), Undef, Undef, 0, "", Null, Undef)}

SubmitDel == \E p \in Procs, req \in DelRequests : Submit(p, req)

\* issuances and shareholder deletions in flight together
NextDel ==
    \/ SubmitDel
    \/ \E p \in Procs : Acquire(p)
    \/ \E p \in Procs : ExecAuth(p)
    \/ \E p \in Procs : ExecHolder(p)
    \/ \E p \in Procs : ExecType(p)
    \/ \E p \in Procs : ExecInsert(p)
    \/ \E p \in Procs : ExecCount(p)
    \/ \E p \in Procs : ExecDeactivate(p)
    \/ \E p \in Procs : ExecDelete(p)
    \/ \E p \in Procs : Return(p)

SpecDel == Init /\ [][NextDel]_vars

\* ---------------------------------------------------------------- ownership report
\* handleOwnershipReport of the reports function (src/unnamed/part_003).

\* ORDER BY CASE est.stock_type WHEN 'COMMON' THEN 1 WHEN 'PREFERRED' THEN 2
\* WHEN 'WARRANT' THEN 3 ELSE 4 END
TypeRank(t) == CASE t.stock_type = "COMMON" -> 1
                 [] t.stock_type = "PREFERRED" -> 2
                 [] t.stock_type = "WARRANT" -> 3
                 [] OTHER -> 4

\* ORDER BY ess.series, for the labels in use
SeriesRank(x) == CASE x.series = "A" -> 1
                   [] x.series = "B" -> 2
                   [] OTHER -> 3

\* the orders in which a query may return the rows of S under ORDER BY rank:
\* rows of equal rank come in any order
Orderings(S, rank) ==
    {f \in [1..Cardinality(S) -> S] :
        /\ \A i, j \in 1..Cardinality(S) : i # j => f[i] # f[j]
        /\ \A i, j \in 1..Cardinality(S) : i < j => rank[f[i]] <= rank[f[j]]}

\* WHERE est.entity_id = $1 AND est.is_active = TRUE
ActiveTypes(entity_id) ==
    {t \in entity_stock_types : t.entity_id = entity_id /\ t.is_active}

\* WHERE est.entity_id = $1 AND ess.is_active = TRUE AND est.is_active = TRUE,
\* filtered to one stock type, in ORDER BY ess.series
SeriesForType(st) ==
    LET S == {x \in entity_stock_type_series :
                 x.is_active /\ x.entity_stock_type_id = st.id}
    IN CHOOSE f \in Orderings(S, [x \in S |-> SeriesRank(x)]) : TRUE

\* the key of a column and of a holding: `${type id}_${series id or 'null'}`
ColKey(entity_stock_type_id, entity_stock_series_id) ==
    <<entity_stock_type_id, entity_stock_series_id>>

\* the columns one stock type contributes: one per active series when it
\* supports series, a single one otherwise
ColumnsOfType(st) ==
    IF st.supports_series
    THEN [i \in DOMAIN SeriesForType(st) |-> ColKey(st.id, SeriesForType(st)[i].id)]
    ELSE <<ColKey(st.id, NoId)>>

\* stockTypesResult.rows.forEach(...): the column definitions, in order
RECURSIVE Columns(_)
Columns(types) ==
    IF types = << >> THEN << >>
    ELSE ColumnsOfType(Head(types)) \o Columns(Tail(types))

\* the stock type and series a transaction row refers to
st_entity_stock_type_id(r) ==
    LET T == {t \in entity_stock_types :
                 t.entity_id = r.entity_id /\ t.stock_type = r.stock_type}
    IN IF T = {} THEN NoId ELSE (CHOOSE t \in T : TRUE).id

st_entity_stock_series_id(r) ==
    LET X == {x \in entity_stock_type_series :
                 x.entity_stock_type_id = st_entity_stock_type_id(r) /\ x.series = r.series}
    IN IF r.series = Null \/ X = {} THEN NoId ELSE (CHOOSE x \in X : TRUE).id

\* the CASE inside SUM(...) AS current_shares, for row st joined to
\* shareholder s
ReportedShares(st, s) ==
    CASE st.transaction_type = "ISSUANCE" -> st.shares
      [] st.transaction_type = "TRANSFER" /\ st.to_shareholder_id = s -> st.shares
      [] st.transaction_type = "TRANSFER" /\ st.from_shareholder_id = s -> 0 - st.shares
      [] st.transaction_type \in {"CANCELLATION", "FORFEITURE"} -> 0 - st.shares
      [] OTHER -> 0

RECURSIVE SumReported(_, _)
SumReported(rows, s) ==
    IF rows = {} THEN 0
    ELSE LET r == CHOOSE x \in rows : TRUE
         IN ReportedShares(r, s) + SumReported(rows \ {r}, s)

RECURSIVE SumOver(_, _)
SumOver(S, f) ==
    IF S = {} THEN 0
    ELSE LET x == CHOOSE y \in S : TRUE
         IN f[x] + SumOver(S \ {x}, f)

\* the rows of share_transactions joined to shareholder s that pass the
\* optional filters AND st.entity_stock_type_id = $n, AND
\* st.entity_stock_series_id = $n
Joined(s, params) ==
    {st \in share_transactions :
        /\ st.shareholder_id = s.id
        /\ params.entity_stock_type_id # NoId
              => st_entity_stock_type_id(st) = params.entity_stock_type_id
        /\ params.entity_stock_series_id # NoId
              => st_entity_stock_series_id(st) = params.entity_stock_series_id}

\* GROUP BY s.id, st.entity_stock_type_id, st.entity_stock_series_id: the
\* groups of shareholder s.  The LEFT JOIN gives a shareholder without
\* transactions one group of NULLs, which a filter on st removes.
Groups(s, params) ==
    {ColKey(st_entity_stock_type_id(st), st_entity_stock_series_id(st)) :
        st \in Joined(s, params)}
    \cup (IF /\ ~\E st \in share_transactions : st.shareholder_id = s.id
             /\ params.entity_stock_type_id = NoId
             /\ params.entity_stock_series_id = NoId
          THEN {ColKey(NoId, NoId)} ELSE {})

\* COALESCE(SUM(CASE ...), 0) AS current_shares of one group
current_shares(s, key, params) ==
    SumReported({st \in Joined(s, params) :
                    ColKey(st_entity_stock_type_id(st),
                           st_entity_stock_series_id(st)) = key}, s.id)

\* the rows of the balance query: WHERE s.entity_id = $1 and the status
\* filter on current_shares
BalanceRows(entity_id, params) ==
    {row \in UNION {{[shareholder_id |-> s.id, key |-> key,
                      current_shares |-> current_shares(s, key, params)] :
                        key \in Groups(s, params)} :
                     s \in {x \in shareholders : x.entity_id = entity_id}} :
        /\ params.status = "ACTIVE" => row.current_shares > 0
        /\ params.status = "INACTIVE" => row.current_shares = 0}

\* result.rows.forEach: sh.holdings[colKey] = shares for the groups with
\* shares > 0
Holdings(rows, id) ==
    LET held == {row \in rows : row.shareholder_id = id /\ row.current_shares > 0}
    IN [key \in {row.key : row \in held} |->
           (CHOOSE row \in held : row.key = key).current_shares]

\* sh.total_shares += shares, over the same groups
TotalShares(rows, id) ==
    SumOver(DOMAIN Holdings(rows, id), Holdings(rows, id))

\* the report built from the stock types in the order the query returned
\* them
OwnershipReport(entity_id, params, types) ==
    LET columns == Columns(types)
        rows == BalanceRows(entity_id, params)
        listed == {id \in {row.shareholder_id : row \in rows} :
                      params.status = "ACTIVE" => TotalShares(rows, id) > 0}
        holdings == [id \in listed |-> Holdings(rows, id)]
        total_shares == [id \in listed |-> TotalShares(rows, id)]
        cols == {columns[i] : i \in DOMAIN columns}
    IN [params |-> params,
        columns |-> columns,
        shareholders |-> listed,
        holdings |-> holdings,
        total_shares |-> total_shares,
        column_totals |->
            [col \in cols |->
                SumOver(listed,
                        [id \in listed |->
                            IF col \in DOMAIN holdings[id] THEN holdings[id][col]
                            ELSE 0])],
        grand_total |-> SumOver(listed, total_shares)]

\* GET ?action=ownership-report by user u, of any role: the handler reads
\* the taxonomy and the balances and answers 200 with the report.  Its reads
\* are taken in one step, while no write is running.
Report(p, u, params) ==
    /\ proc[p].pc = "idle"
    /\ \A q \in Procs : proc[q].pc \notin QueryPcs
    /\ users[u].is_active
    /\ \E types \in Orderings(ActiveTypes(users[u].entity_id),
                              [t \in ActiveTypes(users[u].entity_id) |-> TypeRank(t)]) :
          proc' = [proc EXCEPT ![p] =
                     [IdleProc EXCEPT
                        !.pc = "done",
                        !.resp = [NoResp EXCEPT
                                    !.status = 200, !.kind = "Report",
                                    !.report = OwnershipReport(users[u].entity_id,
                                                               params, types)]]]
    /\ UNCHANGED <<share_transactions, nextId, shareholders, shareholders_id_seq,
                   entity_stock_types,
                   entity_stock_type_series, idle, conn, faults>>

\* upsert-type without an id: INSERT INTO entity_stock_types of a new code
\* for the user's entity; UNIQUE(entity_id, stock_type) refuses a second
\* type of the same code
InsertType(u, stock_type, supports_series) ==
    /\ \A p \in Procs : proc[p].pc = "idle"
    /\ canAccessEntity(users[u], users[u].entity_id)
    /\ ~\E t \in entity_stock_types :
          t.entity_id = users[u].entity_id /\ t.stock_type = stock_type
    /\ entity_stock_types' = entity_stock_types \cup
          {[id |-> Cardinality(entity_stock_types) + 1,
            entity_id |-> users[u].entity_id, stock_type |-> stock_type,
            supports_series |-> supports_series, is_active |-> TRUE]}
    /\ UNCHANGED <<share_transactions, nextId, shareholders, shareholders_id_seq,
                   entity_stock_type_series,
                   idle, conn, proc, faults>>

\* the ledger writes that precede a report
ReportRequests ==
    {Req("issue-shares", 1, Num(1), Undef, Undef, 1, ts[1], ts[2], Num(q)) :
        ts \in {<<"COMMON", Null>>, <<"PREFERRED", "A">>}, q \in {1, 2}}
    \cup {Req("cancel-shares", 1, Num(1), Undef, Undef, 1, "COMMON", Null, Num(1)),
          Req("transfer-shares", 1, Undef, Num(1), Num(2), 1, "COMMON", Null, Num(1))}

\* the filters of the reports requested
ReportFilters ==
    {ReportParams(NoId, NoId, "ALL"), ReportParams(NoId, NoId, "ACTIVE"),
     ReportParams(NoId, NoId, "INACTIVE"), ReportParams(1, NoId, "ALL")}

SubmitReport ==
    /\ \A p \in Procs : proc[p].pc = "idle"
    /\ \E req \in ReportRequests : Submit(1, req)

\* ledger writes and taxonomy changes one at a time, each followed by any
\* number of ownership reports
NextReport ==
    \/ SubmitReport
    \/ \E p \in Procs : Acquire(p)
    \/ \E p \in Procs : ExecAuth(p)
    \/ \E p \in Procs : ExecHolder(p)
    \/ \E p \in Procs : ExecType(p)
    \/ \E p \in Procs : ExecSeries(p)
    \/ \E p \in Procs : ExecAvail(p)
    \/ \E p \in Procs : ExecBegin(p)
    \/ \E p \in Procs : ExecOut(p)
    \/ \E p \in Procs : ExecIn(p)
    \/ \E p \in Procs : ExecCommit(p)
    \/ \E p \in Procs : ExecRollback(p)
    \/ \E p \in Procs : ExecInsert(p)
    \/ \E p \in Procs : Return(p)
    \/ \E code \in {"OPTION", "UNIT"} : InsertType(1, code, FALSE)
    \/ \E b \in BOOLEAN : ToggleType(1, 1, b)
    \/ \E b \in BOOLEAN : ToggleSeries(1, 1, b)
    \/ \E p \in Procs, params \in ReportFilters : Report(p, 2, params)

SpecReport == Init /\ [][NextReport]_vars

\* ---------------------------------------------------------------- ledger reads
\* handleGetShareholders, handleGetShareholder, handleGetTransactions and
\* handleGetOwnership of ledger.js: authMiddleware, then one SELECT (two for
\* the shareholder detail) sent through pool.query like every other statement.

\* a SELECT that also ends the transaction open on its client
SelectCommitting(c) ==
    /\ share_transactions' = Visible(c)
    /\ conn' = [conn EXCEPT ![c] = FreshConn]
    /\ UNCHANGED nextId

\* what a SELECT on client c does to storage
Select(c) == UNCHANGED <<share_transactions, nextId, conn>>

\* enforceEntityScope(user, requestedEntityId)
enforceEntityScope(user, requestedEntityId) ==
    user.role = "SUPER_ADMIN" \/ user.entity_id = requestedEntityId

\* the transaction rows a read returns or aggregates, among the rows its
\* statement sees; an empty stock_type, a NULL series and a missing
\* shareholder_id are absent filters
ReadRows(req, entity_id, rows) ==
    LET typed == {r \in rows :
                     /\ req.stock_type = "" \/ r.stock_type = upper(req.stock_type)
                     /\ req.series = Null \/ SqlEq(r.series, req.series)}
    IN CASE req.action = "transactions" ->
               {r \in typed : /\ r.entity_id = entity_id
                              /\ Falsy(req.shareholder_id)
                                    \/ r.shareholder_id = DbInt(req.shareholder_id)}
         [] req.action = "ownership" ->
               {r \in typed : /\ r.entity_id = entity_id
                              /\ \E s \in shareholders :
                                    s.id = r.shareholder_id /\ s.entity_id = entity_id}
         [] req.action = "shareholders" ->
               {r \in rows : \E s \in shareholders :
                                s.id = r.shareholder_id /\ s.entity_id = entity_id}
         [] OTHER -> {r \in rows : r.shareholder_id = DbInt(req.shareholder_id)}

\* the SELECT of a list, or the shareholder lookup of the detail with its 404
\* and 403
ExecRead(p) ==
    LET me == proc[p]
        c == me.cl
        found == {s \in shareholders : s.id = DbInt(me.req.shareholder_id)}
    IN /\ me.pc = "read"
       /\ c # NoId
       /\ idle' = Append(idle, c)
       /\ Select(c)
       /\ proc' = [proc EXCEPT ![p] =
             IF Aborted(c) THEN Finish(me, StorageError)
             ELSE IF me.req.action # "shareholder"
                  THEN Finish(me, [Err(200, "Read") EXCEPT
                                      !.rows = {r.id : r \in ReadRows(me.req, me.ent,
                                                                      Visible(c))}])
             ELSE IF found = {} THEN Finish(me, Err(404, "ShareholderNotFound"))
             ELSE IF ~\E s \in found : enforceEntityScope(users[me.req.token], s.entity_id)
                  THEN Finish(me, Err(403, "Forbidden"))
             ELSE [me EXCEPT !.cl = NoId, !.pc = "detail"]]
       /\ UNCHANGED <<tables, faults>>

\* the transactions of the shareholder detail
ExecDetail(p) ==
    LET me == proc[p]
        c == me.cl
    IN /\ me.pc = "detail"
       /\ c # NoId
       /\ idle' = Append(idle, c)
       /\ Select(c)
       /\ proc' = [proc EXCEPT ![p] =
             IF Aborted(c) THEN Finish(me, StorageError)
             ELSE Finish(me, [Err(200, "Read") EXCEPT
                                 !.rows = {r.id : r \in ReadRows(me.req, me.ent,
                                                                 Visible(c))}])]
       /\ UNCHANGED <<tables, faults>>

\* a GET request of the ledger function
ReadReq(action, token, sh, st, series) ==
    Req(action, token, sh, Undef, Undef, 0, st, series, Undef)

ReadRequests ==
    {ReadReq("shareholders", 2, Undef, "", Null),
     ReadReq("shareholder", 2, Num(1), "", Null),
     ReadReq("shareholder", 2, Num(5), "", Null),
     ReadReq("shareholder", 2, Num(4), "", Null),
     ReadReq("shareholder", 2, Undef, "", Null),
     ReadReq("transactions", 2, Undef, "", Null),
     ReadReq("transactions", 2, Num(1), "preferred", "A"),
     ReadReq("ownership", 2, Undef, "", Null),
     ReadReq("ownership", 2, Undef, "PREFERRED", "A")}

\* the writes running next to the reads
ReadSideWrites ==
    {Req("issue-shares", 1, Num(1), Undef, Undef, 1, "PREFERRED", "A", Num(1)),
     Req("transfer-shares", 1, Undef, Num(1), Num(2), 1, "PREFERRED", "A", Num(1))}

\* writes arrive in slot 1, reads in slot 2, at any time
SubmitRead ==
    \/ \E req \in ReadSideWrites : Submit(1, req)
    \/ \E req \in ReadRequests : Submit(2, req)

\* reads and ownership reports interleaved with ledger writes on the shared
\* pool
NextRead ==
    \/ SubmitRead
    \/ \E p \in Procs : Acquire(p)
    \/ \E p \in Procs : ExecAuth(p)
    \/ \E p \in Procs : ExecHolder(p)
    \/ \E p \in Procs : ExecType(p)
    \/ \E p \in Procs : ExecSeries(p)
    \/ \E p \in Procs : ExecAvail(p)
    \/ \E p \in Procs : ExecBegin(p)
    \/ \E p \in Procs : ExecOut(p)
    \/ \E p \in Procs : ExecIn(p)
    \/ \E p \in Procs : ExecCommit(p)
    \/ \E p \in Procs : ExecRollback(p)
    \/ \E p \in Procs : ExecInsert(p)
    \/ \E p \in Procs : ExecRead(p)
    \/ \E p \in Procs : ExecDetail(p)
    \/ \E params \in ReportFilters : Report(2, 2, params)
    \/ \E p \in Procs : Return(p)

SpecRead == Init /\ [][NextRead]_vars

\* ---------------------------------------------------------------- writes on disjoint keys
\* After an issuance of COMMON shares to shareholder 1 has been served alone,
\* a transfer of COMMON from 1 to 2 and an issuance of PREFERRED/A to
\* shareholder 1 arrive at any time: their keys (shareholder, stock type,
\* series) are disjoint.
SeedRequest == Req("issue-shares", 1, Num(1), Undef, Undef, 1, "COMMON", Null, Num(1))

DisjointRequests ==
    [p \in Procs |->
        IF p = 1
        THEN Req("transfer-shares", 1, Undef, Num(1), Num(2), 2, "COMMON", Null, Num(1))
        ELSE Req("issue-shares", 1, Num(1), Undef, Undef, 2, "PREFERRED", "A", Num(1))]

SubmitDisjoint ==
    \/ /\ nextId = 1
       /\ \A p \in Procs : proc[p].pc = "idle"
       /\ Submit(1, SeedRequest)
    \/ /\ nextId > 1
       /\ \E p \in Procs : Submit(p, DisjointRequests[p])

NextDisjoint ==
    \/ SubmitDisjoint
    \/ \E p \in Procs : Acquire(p)
    \/ \E p \in Procs : ExecAuth(p)
    \/ \E p \in Procs : ExecHolder(p)
    \/ \E p \in Procs : ExecType(p)
    \/ \E p \in Procs : ExecSeries(p)
    \/ \E p \in Procs : ExecAvail(p)
    \/ \E p \in Procs : ExecBegin(p)
    \/ \E p \in Procs : ExecOut(p)
    \/ \E p \in Procs : ExecIn(p)
    \/ \E p \in Procs : ExecCommit(p)
    \/ \E p \in Procs : ExecRollback(p)
    \/ \E p \in Procs : ExecInsert(p)
    \/ \E p \in Procs : Return(p)

SpecDisjoint == Init /\ [][NextDisjoint]_vars

\* ---------------------------------------------------------------- earlier revision of the handlers
\* the term one row contributes to the earlier revision's balance query:
\*   CASE WHEN transaction_type = 'ISSUANCE' THEN shares
\*        WHEN transaction_type = 'TRANSFER' AND to_shareholder_id = $1 THEN shares
\*        WHEN transaction_type = 'TRANSFER' AND from_shareholder_id = $1 THEN -shares
\*        WHEN transaction_type IN ('CANCELLATION', 'FORFEITURE') THEN -shares
\*        ELSE 0 END
CaseShares(r, sh) ==
    IF r.transaction_type = "ISSUANCE" THEN r.shares
    ELSE IF r.transaction_type = "TRANSFER" /\ r.to_shareholder_id = sh THEN r.shares
    ELSE IF r.transaction_type = "TRANSFER" /\ r.from_shareholder_id = sh THEN 0 - r.shares
    ELSE IF r.transaction_type \in {"CANCELLATION", "FORFEITURE"} THEN 0 - r.shares
    ELSE 0

\* WHERE shareholder_id = $1 AND stock_type = $2
\*   AND (series = $3 OR (stock_type = 'COMMON' AND series IS NULL))
CaseRows(rows, sh, st, series) ==
    {r \in rows : /\ r.shareholder_id = sh
                  /\ r.stock_type = st
                  /\ (SqlEq(r.series, series) \/ (r.stock_type = "COMMON" /\ r.series = Null))}

\* SELECT COALESCE(SUM(CASE ... END), 0) as available_shares
available_shares(rows, sh, st, series) ==
    LET S == CaseRows(rows, sh, st, series)
    IN SumOver(S, [r \in S |-> CaseShares(r, sh)])

\* the earlier revision between authMiddleware and its first query
EarlierSyncChecks(req, user) ==
    IF ~requireRole(WriteRoles, user) THEN Err(403, "Forbidden")
    ELSE IF req.action = "transfer-shares"
            /\ (\/ Falsy(req.from_shareholder_id) \/ Falsy(req.to_shareholder_id)
                \/ req.transaction_date = 0 \/ req.stock_type = "" \/ Falsy(req.shares))
    THEN Err(400, "RequiredFields")
    ELSE IF req.action # "transfer-shares"
            /\ (\/ Falsy(req.shareholder_id) \/ req.transaction_date = 0
                \/ req.stock_type = "" \/ Falsy(req.shares))
    THEN Err(400, "RequiredFields")
    ELSE IF req.action = "transfer-shares" /\ SameShareholderStrict(req)
    THEN Err(400, "SelfTransfer")
    ELSE IF req.stock_type = "PREFERRED" /\ req.series = Null
    THEN Err(400, "SeriesRequired")
    ELSE IF BadShares(req) THEN Err(400, "SharesNotPositive")
    ELSE IF user.role = "SUPER_ADMIN" /\ req.entity_id = NoId
    THEN Err(400, "EntityNotResolved")
    ELSE NoResp

\* One request served by the earlier revision of handleIssueShares,
\* handleCancelShares or handleTransferShares while no other request is in
\* flight and no statement fails: its statements then run one after the other
\* on the same idle client, and the transfer's two rows commit together.
EarlierHandler(req) ==
    LET user == users[req.token]
        sync == EarlierSyncChecks(req, user)
        targetEntityId == IF user.role = "SUPER_ADMIN" THEN req.entity_id
                          ELSE user.entity_id
        me == [IdleProc EXCEPT !.req = req, !.ent = targetEntityId,
                               !.v = [NoV EXCEPT !.stock_type = req.stock_type,
                                                 !.series = req.series]]
        transfer == req.action = "transfer-shares"
        ids == IF transfer
               THEN {DbInt(req.from_shareholder_id), DbInt(req.to_shareholder_id)}
               ELSE {DbInt(req.shareholder_id)}
        availableShares == available_shares(share_transactions, Holder(req),
                                            req.stock_type, req.series)
        rows == IF transfer THEN {OutRow(nextId, me), InRow(nextId + 1, me)}
                ELSE IF req.action = "cancel-shares" THEN {CancellationRow(nextId, me)}
                ELSE {IssuanceRow(nextId, me)}
        answer == IF sync # NoResp THEN sync
                  ELSE IF Cardinality(ActiveHolders(ids, targetEntityId)) # Cardinality(ids)
                       THEN Err(404, "ShareholderNotFound")
                  ELSE IF req.action # "issue-shares" /\ Insufficient(availableShares, req)
                       THEN [Err(400, "InsufficientShares") EXCEPT
                                !.available = availableShares,
                                !.requested = sharesNum(req)]
                  ELSE IF \E r \in rows : ~RowAllowed(r) THEN StorageError
                  ELSE [NoResp EXCEPT !.status = 201, !.kind = "OK",
                                      !.rows = {nextId + Cardinality(rows) - 1}]
    IN /\ \A p \in Procs : proc[p].pc = "idle"
       /\ \A c \in Clients : conn[c] = FreshConn
       /\ nextId - 1 <= MaxRows
       /\ IF answer.kind = "OK"
          THEN /\ share_transactions' = share_transactions \cup rows
               /\ nextId' = nextId + Cardinality(rows)
               /\ proc' = [proc EXCEPT ![1] =
                     Finish([me EXCEPT !.avail = availableShares,
                                       !.nw = Cardinality(rows)], answer)]
          ELSE /\ proc' = [proc EXCEPT ![1] = Finish(me, answer)]
               /\ UNCHANGED <<share_transactions, nextId>>
       /\ UNCHANGED <<tables, idle, conn, faults>>

EarlierRequests ==
    IssueRequests \cup CancelRequests \cup TransferRequests
    \cup {Req(a, tok, Num(1), Num(1), Num(2), 1, ts[1], ts[2], q) :
            a \in {"issue-shares", "cancel-shares", "transfer-shares"},
            tok \in {1, 2, 3},
            ts \in {<<"COMMON", Null>>, <<"PREFERRED", Null>>, <<"COMMON", "A">>},
            q \in {Num(1), Num(0), Text}}

EarlierIssueShares ==
    \E req \in EarlierRequests : req.action = "issue-shares" /\ EarlierHandler(req)

EarlierCancelShares ==
    \E req \in EarlierRequests : req.action = "cancel-shares" /\ EarlierHandler(req)

EarlierTransferShares ==
    \E req \in EarlierRequests : req.action = "transfer-shares" /\ EarlierHandler(req)

NextEarlier ==
    \/ EarlierIssueShares
    \/ EarlierCancelShares
    \/ EarlierTransferShares
    \/ \E p \in Procs : Return(p)

SpecEarlier == Init /\ [][NextEarlier]_vars

\* ---------------------------------------------------------------- entity scope of writes
\* two entities, each with shareholders and an active COMMON stock type
InitScope ==
    /\ share_transactions = {}
    /\ nextId = 1
    /\ shareholders = {[id |-> 1, entity_id |-> 1, is_active |-> TRUE],
                       [id |-> 2, entity_id |-> 1, is_active |-> TRUE],
                       [id |-> 5, entity_id |-> 2, is_active |-> TRUE],
                       [id |-> 6, entity_id |-> 2, is_active |-> TRUE]}
    /\ shareholders_id_seq = 7
    /\ entity_stock_types =
          {[id |-> 1, entity_id |-> 1, stock_type |-> "COMMON",
            supports_series |-> FALSE, is_active |-> TRUE],
           [id |-> 2, entity_id |-> 1, stock_type |-> "PREFERRED",
            supports_series |-> TRUE, is_active |-> TRUE],
           [id |-> 4, entity_id |-> 2, stock_type |-> "COMMON",
            supports_series |-> FALSE, is_active |-> TRUE]}
    /\ entity_stock_type_series =
          {[id |-> 1, entity_stock_type_id |-> 2, series |-> "A", is_active |-> TRUE]}
    /\ idle = << >>
    /\ conn = [c \in Clients |-> FreshConn]
    /\ proc = [p \in Procs |-> IdleProc]
    /\ faults = 0

\* const { ..., entity_id } = body: requests of an ADMIN (token 1), a USER
\* (token 2) and a SUPER_ADMIN (token 3) of entity 1 that supply no entity_id,
\* their own or another entity's, and name shareholders of either entity
ScopeRequests ==
    {[Req(a, tok, Num(s), Undef, Undef, 1, ts[1], ts[2], Num(1)) EXCEPT !.entity_id = e] :
        a \in {"issue-shares", "cancel-shares"}, tok \in {1, 2, 3}, s \in {1, 5},
        ts \in TypeSeries, e \in {NoId, 1, 2}}
    \cup {[Req("transfer-shares", tok, Undef, Num(ft[1]), Num(ft[2]), 1, "COMMON", Null,
               Num(1)) EXCEPT !.entity_id = e] :
        tok \in {1, 2, 3}, ft \in {<<1, 2>>, <<5, 6>>, <<1, 5>>}, e \in {NoId, 1, 2}}

SubmitScope ==
    /\ \A p \in Procs : proc[p].pc = "idle"
    /\ \E req \in ScopeRequests : Submit(1, req)

NextScope ==
    \/ SubmitScope
    \/ \E p \in Procs : Acquire(p)
    \/ \E p \in Procs : ExecAuth(p)
    \/ \E p \in Procs : ExecHolder(p)
    \/ \E p \in Procs : ExecType(p)
    \/ \E p \in Procs : ExecSeries(p)
    \/ \E p \in Procs : ExecAvail(p)
    \/ \E p \in Procs : ExecBegin(p)
    \/ \E p \in Procs : ExecOut(p)
    \/ \E p \in Procs : ExecIn(p)
    \/ \E p \in Procs : ExecCommit(p)
    \/ \E p \in Procs : ExecRollback(p)
    \/ \E p \in Procs : ExecInsert(p)
    \/ Crash
    \/ \E c \in Clients : IdleTimeout(c)
    \/ \E p \in Procs : Return(p)

SpecScope == InitScope /\ [][NextScope]_vars

\* ---------------------------------------------------------------- shareholder roster
\* `SH-${String(count).padStart(6, '0')}`
GeneratedIds == <<"SH-000001", "SH-000002", "SH-000003", "SH-000004", "SH-000005",
                  "SH-000006", "SH-000007", "SH-000008", "SH-000009">>

\* SELECT COUNT(*) as cnt FROM shareholders WHERE entity_id = $1, then
\* count = parseInt(cnt) + 1
GeneratedExternalId(count) == GeneratedIds[count + 1]

CreateReq(token, full_name, external_id) ==
    [Req("create-shareholder", token, Undef, Undef, Undef, 0, "", Null, Undef)
        EXCEPT !.full_name = full_name, !.external_id = external_id]

\* handleCreateShareholder of the shareholders function, served while no
\* other request is in flight.  The INSERT draws the row's id from the
\* sequence before UNIQUE(entity_id, external_id) is checked, so a refused
\* INSERT uses up an id.
handleCreateShareholder(req) ==
    LET user == users[req.token]
        targetEntityId == IF user.role = "SUPER_ADMIN" /\ req.entity_id # NoId
                          THEN req.entity_id ELSE user.entity_id
        count == Cardinality({s \in shareholders : s.entity_id = targetEntityId})
        finalExternalId == IF req.external_id \in {Null, ""}
                           THEN GeneratedExternalId(count) ELSE req.external_id
        row == [id |-> shareholders_id_seq, entity_id |-> targetEntityId,
                is_active |-> TRUE, external_id |-> finalExternalId]
        duplicate == \E s \in shareholders :
                        s.entity_id = targetEntityId /\ s.external_id = finalExternalId
        sync == IF ~requireRole(WriteRoles, user) THEN Err(403, "Forbidden")
                ELSE IF req.full_name = "" THEN Err(400, "RequiredFields")
                ELSE IF ~enforceEntityScope(user, targetEntityId) THEN Err(403, "Forbidden")
                ELSE NoResp
        me == [IdleProc EXCEPT !.req = req, !.ent = targetEntityId]
    IN /\ \A p \in Procs : proc[p].pc = "idle"
       /\ shareholders_id_seq <= MaxCreated
       /\ IF sync # NoResp
          THEN /\ proc' = [proc EXCEPT ![1] = Finish(me, sync)]
               /\ UNCHANGED <<shareholders, shareholders_id_seq>>
          ELSE /\ shareholders_id_seq' = shareholders_id_seq + 1
               /\ shareholders' = IF duplicate THEN shareholders
                                  ELSE shareholders \cup {row}
               /\ proc' = [proc EXCEPT ![1] =
                     IF duplicate THEN Finish(me, StorageError)
                     ELSE Finish([me EXCEPT !.ret = row.id],
                                 [NoResp EXCEPT !.status = 201, !.kind = "OK"])]
       /\ UNCHANGED <<share_transactions, nextId, entity_stock_types,
                      entity_stock_type_series, idle, conn, faults>>

\* an entity that has no shareholder yet
InitRoster ==
    /\ share_transactions = {}
    /\ nextId = 1
    /\ shareholders = {}
    /\ shareholders_id_seq = 1
    /\ entity_stock_types =
          {[id |-> 1, entity_id |-> 1, stock_type |-> "COMMON",
            supports_series |-> FALSE, is_active |-> TRUE]}
    /\ entity_stock_type_series = {}
    /\ idle = << >>
    /\ conn = [c \in Clients |-> FreshConn]
    /\ proc = [p \in Procs |-> IdleProc]
    /\ faults = 0

CreateRequests ==
    {CreateReq(tok, name, x) :
        tok \in {1, 2}, name \in {"", "N"}, x \in {Null, "", "X", "SH-000002"}}

\* deletions of the shareholders created so far and issuances to them
RosterRequests ==
    {Req("delete-shareholder", 3, Num(i), Undef, Undef, 0, "", Null, Undef) :
        i \in 1..MaxCreated}
    \cup {Req("issue-shares", 1, Num(i), Undef, Undef, 1, "COMMON", Null, Num(1)) :
        i \in 1..MaxCreated}

CreateShareholder == \E req \in CreateRequests : handleCreateShareholder(req)

SubmitRoster ==
    /\ \A p \in Procs : proc[p].pc = "idle"
    /\ \E req \in RosterRequests : Submit(1, req)

NextRoster ==
    \/ CreateShareholder
    \/ SubmitRoster
    \/ \E p \in Procs : Acquire(p)
    \/ \E p \in Procs : ExecAuth(p)
    \/ \E p \in Procs : ExecHolder(p)
    \/ \E p \in Procs : ExecType(p)
    \/ \E p \in Procs : ExecInsert(p)
    \/ \E p \in Procs : ExecCount(p)
    \/ \E p \in Procs : ExecDeactivate(p)
    \/ \E p \in Procs : ExecDelete(p)
    \/ \E p \in Procs : Return(p)

SpecRoster == InitRoster /\ [][NextRoster]_vars

\* ---------------------------------------------------------------- ledger views
ShareholderIds == {s.id : s \in shareholders}
StockTypes == {t.stock_type : t \in entity_stock_types}
SeriesLabels == {Null} \cup {x.series : x \in entity_stock_type_series}

\* the rows of one (shareholder, stock type, series) key; NULL is the "no
\* series" key
RowsOf(rows, sh, st, series) ==
    {r \in rows : r.shareholder_id = sh /\ r.stock_type = st /\ r.series = series}

\* the balance of a key: the plain signed sum of its committed rows
Balance(sh, st, series) == SumShares(RowsOf(share_transactions, sh, st, series))

\* r comes no later than x in (transaction_date, id) order
NotAfter(r, x) ==
    \/ r.transaction_date < x.transaction_date
    \/ r.transaction_date = x.transaction_date /\ r.id <= x.id

InFlight(p) == proc[p].pc \in QueryPcs

\* ---------------------------------------------------------------- claims

\* C1: whatever the interleaving of the storage round trips of concurrent
\* transfer-shares and cancel-shares requests on one key, the signed sum of
\* the key's rows is never negative.
C1_NeverOverdrawn ==
    \A sh \in ShareholderIds, st \in StockTypes, se \in SeriesLabels :
        Balance(sh, st, se) >= 0

\* the legs of the transfers of q shares of (st, se) from f to t dated d
Legs(sh, f, t, st, se, d, q) ==
    {r \in share_transactions :
        /\ r.transaction_type = "TRANSFER"
        /\ r.shareholder_id = sh
        /\ r.from_shareholder_id = f /\ r.to_shareholder_id = t
        /\ r.stock_type = st /\ r.series = se
        /\ r.transaction_date = d /\ r.shares = q}

\* C2: a transfer writes its two rows atomically: once no transfer is being
\* handled any more (it answered, failed on a storage error, or its process
\* died), the log holds for every transfer either both of its rows or none,
\* that is as many sender rows (-q) as receiver rows (+q).
C2_TransferAtomic ==
    (\A p \in Procs : ~InFlight(p)) =>
        \A f \in ShareholderIds, t \in ShareholderIds, st \in StockTypes,
           se \in SeriesLabels, d \in Dates, q \in Quantities :
            Cardinality(Legs(f, f, t, st, se, d, 0 - q))
                = Cardinality(Legs(t, f, t, st, se, d, q))

\* C3: replaying the rows of any key in (transaction_date, id) order never
\* yields a running balance below zero.
C3_ReplayNeverNegative ==
    \A sh \in ShareholderIds, st \in StockTypes, se \in SeriesLabels :
        \A x \in RowsOf(share_transactions, sh, st, se) :
            SumShares({r \in RowsOf(share_transactions, sh, st, se) : NotAfter(r, x)}) >= 0

\* C4: when the write requests are executed one at a time, the balance of
\* every (shareholder, stock type, series) key is at least zero after every
\* request (and in every state in between).
C4_BalanceNeverNegative ==
    \A sh \in ShareholderIds, st \in StockTypes, se \in SeriesLabels :
        SumShares(RowsOf(share_transactions, sh, st, se)) >= 0

\* a key was debited down to exactly zero
C4_Witness ==
    \E r \in share_transactions :
        r.shares < 0 /\ Balance(r.shareholder_id, r.stock_type, r.series) = 0

\* ---------------------------------------------------------------- requests one at a time
\* While a single invocation is in flight it alone draws ids, so the rows it
\* inserted are the nw newest ids and the log it started from is the rest.
AppendedBy(p) == {r \in share_transactions : r.id >= nextId - proc[p].nw}
LogBefore(p) == {r \in share_transactions : r.id < nextId - proc[p].nw}

BalanceBefore(p, sh, st, se) == SumShares(RowsOf(LogBefore(p), sh, st, se))

Succeeded(p, action) ==
    /\ proc[p].pc = "done"
    /\ proc[p].req.action = action
    /\ proc[p].resp.kind = "OK"

Keys == ShareholderIds \X StockTypes \X SeriesLabels

\* C5: the two rows appended by a successful transfer carry -q and +q
\* (summing to zero), belong to the sender and to the receiver respectively,
\* carry the same stock type and series, and both carry the same
\* from_shareholder_id and to_shareholder_id.
C5_TransferRowsPaired ==
    \A p \in Procs : Succeeded(p, "transfer-shares") =>
        LET me == proc[p]
            f == DbInt(me.req.from_shareholder_id)
            t == DbInt(me.req.to_shareholder_id)
            q == sharesNum(me.req)
        IN \E o \in AppendedBy(p), i \in AppendedBy(p) :
              /\ o # i
              /\ o.transaction_type = "TRANSFER" /\ i.transaction_type = "TRANSFER"
              /\ o.shares = 0 - q /\ i.shares = q /\ o.shares + i.shares = 0
              /\ o.shareholder_id = f /\ i.shareholder_id = t
              /\ o.stock_type = i.stock_type /\ o.series = i.series
              /\ o.stock_type = upper(me.req.stock_type)
              /\ o.series = normalizeSeries(me.req.series)
              /\ o.from_shareholder_id = f /\ i.from_shareholder_id = f
              /\ o.to_shareholder_id = t /\ i.to_shareholder_id = t

\* a transfer of a series-carrying stock type succeeded
C5_Witness ==
    \E p \in Procs : Succeeded(p, "transfer-shares") /\ proc[p].v.series = "A"

\* C6: a successful transfer of q from A to B appends exactly two rows and
\* changes exactly two balances: A's goes down by q, B's goes up by q.
C6_TransferMovesShares ==
    \A p \in Procs : Succeeded(p, "transfer-shares") =>
        LET me == proc[p]
            a == <<DbInt(me.req.from_shareholder_id), upper(me.req.stock_type),
                   normalizeSeries(me.req.series)>>
            b == <<DbInt(me.req.to_shareholder_id), upper(me.req.stock_type),
                   normalizeSeries(me.req.series)>>
            q == sharesNum(me.req)
        IN /\ Cardinality(AppendedBy(p)) = 2
           /\ Cardinality(share_transactions) = Cardinality(LogBefore(p)) + 2
           /\ \A k \in Keys :
                 Balance(k[1], k[2], k[3]) =
                    BalanceBefore(p, k[1], k[2], k[3])
                       + (IF k = b THEN q ELSE 0) - (IF k = a THEN q ELSE 0)

\* part of a holding was transferred: the sender keeps a positive balance
C6_Witness ==
    \E p \in Procs :
        /\ Succeeded(p, "transfer-shares")
        /\ Balance(DbInt(proc[p].req.from_shareholder_id), proc[p].v.stock_type,
                   proc[p].v.series) > 0

\* the shareholder a request takes shares from: the sender of a transfer, the
\* holder of a cancellation
Debited(req) == IF req.action = "transfer-shares" THEN DbInt(req.from_shareholder_id)
                ELSE DbInt(req.shareholder_id)

\* the step in which invocation p gets the answer of its available-shares
\* query for a quantity above the balance of the debited key
AnswersOverdraft(p, action) ==
    /\ proc[p].pc = "avail"
    /\ proc[p].req.action = action
    /\ proc'[p].pc # "avail"
    /\ proc'[p].resp.kind # "Timeout"
    /\ sharesNum(proc[p].req) >
          Balance(Debited(proc[p].req), proc[p].v.stock_type, proc[p].v.series)

RejectedInsufficient(p) ==
    /\ proc'[p].pc = "done"
    /\ proc'[p].resp =
          [status |-> 400, kind |-> "InsufficientShares",
           available |-> Balance(Debited(proc[p].req), proc[p].v.stock_type,
                                 proc[p].v.series),
           requested |-> sharesNum(proc[p].req), rows |-> {},
           report |-> NoReport]
    /\ proc'[p].nw = 0
    /\ share_transactions' = share_transactions

\* C7: a transfer whose quantity exceeds the sender's balance for the key is
\* rejected with the insufficient-shares error, which reports the available
\* balance and the requested quantity; it appends no row and no balance
\* changes.
C7_TransferOverdraftRejected ==
    [][\A p \in Procs :
          AnswersOverdraft(p, "transfer-shares") => RejectedInsufficient(p)]_vars

\* a transfer of more than a positive holding was rejected (600 held, 900 asked)
C7_Witness ==
    \E p \in Procs :
        /\ proc[p].pc = "done"
        /\ proc[p].req.action = "transfer-shares"
        /\ proc[p].resp.kind = "InsufficientShares"
        /\ proc[p].resp.available > 0
        /\ proc[p].resp.requested > proc[p].resp.available

\* C8: a cancellation whose quantity exceeds the holder's balance for the key
\* is rejected with the insufficient-shares error and appends no row; the
\* balance is unchanged.
C8_CancelOverdraftRejected ==
    [][\A p \in Procs :
          AnswersOverdraft(p, "cancel-shares") =>
              /\ proc'[p].pc = "done"
              /\ proc'[p].resp.kind = "InsufficientShares"
              /\ proc'[p].resp.status = 400
              /\ proc'[p].nw = 0
              /\ share_transactions' = share_transactions]_vars

\* a cancellation of more than a positive holding was rejected
C8_Witness ==
    \E p \in Procs :
        /\ proc[p].pc = "done"
        /\ proc[p].req.action = "cancel-shares"
        /\ proc[p].resp.kind = "InsufficientShares"
        /\ proc[p].resp.available > 0

\* the request names one shareholder as sender and as receiver
SelfTransfer(req) ==
    /\ req.action = "transfer-shares"
    /\ ~Falsy(req.from_shareholder_id)
    /\ DbInt(req.from_shareholder_id) = DbInt(req.to_shareholder_id)

C10_IssuanceAddsOneRow ==
    \A p \in Procs : proc[p].req.action = "issue-shares" =>
        /\ proc[p].pc # "avail"
        /\ proc[p].resp.kind # "InsufficientShares"
        /\ Succeeded(p, "issue-shares") =>
              LET me == proc[p]
                  sh == DbInt(me.req.shareholder_id)
                  st == upper(me.req.stock_type)
                  se == normalizeSeries(me.req.series)
                  q == sharesNum(me.req)
              IN /\ q > 0
                 /\ Cardinality(AppendedBy(p)) = 1
                 /\ \A r \in AppendedBy(p) :
                       /\ r.transaction_type = "ISSUANCE"
                       /\ r.shares = q
                       /\ r.shareholder_id = sh
                       /\ r.stock_type = st /\ r.series = se
                       /\ r.id \in me.resp.rows
                 /\ Balance(sh, st, se) = BalanceBefore(p, sh, st, se) + q

\* a second issuance on a key that already held shares succeeded
C10_Witness ==
    \E p \in Procs :
        /\ Succeeded(p, "issue-shares")
        /\ BalanceBefore(p, DbInt(proc[p].req.shareholder_id), proc[p].v.stock_type,
                         proc[p].v.series) > 0

\* C11: a successful cancel-shares of q appends exactly one CANCELLATION row
\* with signed quantity -q; the holder's balance for the (stock type, series)
\* is q lower and every other balance is unchanged.
C11_CancellationRemovesShares ==
    \A p \in Procs : Succeeded(p, "cancel-shares") =>
        LET me == proc[p]
            key == <<DbInt(me.req.shareholder_id), upper(me.req.stock_type),
                     normalizeSeries(me.req.series)>>
            q == sharesNum(me.req)
        IN /\ Cardinality(AppendedBy(p)) = 1
           /\ \A r \in AppendedBy(p) :
                 /\ r.transaction_type = "CANCELLATION"
                 /\ r.shares = 0 - q
                 /\ <<r.shareholder_id, r.stock_type, r.series>> = key
                 /\ r.id \in me.resp.rows
           /\ \A k \in Keys :
                 Balance(k[1], k[2], k[3]) =
                    BalanceBefore(p, k[1], k[2], k[3]) - (IF k = key THEN q ELSE 0)

\* part of a holding was cancelled: the holder keeps a positive balance
C11_Witness ==
    \E p \in Procs :
        /\ Succeeded(p, "cancel-shares")
        /\ Balance(DbInt(proc[p].req.shareholder_id), proc[p].v.stock_type,
                   proc[p].v.series) > 0

WriteActions == {"issue-shares", "transfer-shares", "cancel-shares"}

\* the stock types of the invocation's target entity that carry the code the
\* request names
NamedTypes(p) ==
    {t \in entity_stock_types :
        t.entity_id = proc[p].ent /\ t.stock_type = upper(proc[p].req.stock_type)}

\* the step in which invocation p gets the answer of its stock type query
AnswersType(p) ==
    /\ proc[p].pc = "type"
    /\ proc[p].req.action \in WriteActions
    /\ proc'[p].pc # "type"
    /\ proc'[p].resp.kind # "Timeout"

\* the series of the request is missing or the empty string
NoSeriesGiven(req) == req.series \in {Null, ""}

\* C12: a write request that names an active stock type whose supports_series
\* is true and gives an empty or missing series is rejected with the
\* series-required error and appends no row.
C12_SeriesRequired ==
    [][\A p \in Procs :
          ( /\ AnswersType(p)
            /\ NoSeriesGiven(proc[p].req)
            /\ \E t \in NamedTypes(p) : t.supports_series /\ t.is_active )
          => /\ proc'[p].pc = "done"
             /\ proc'[p].resp = Err(500, "SeriesRequired")
             /\ proc'[p].nw = 0
             /\ share_transactions' = share_transactions]_vars

\* a transfer of PREFERRED shares without a series was rejected although the
\* sender held PREFERRED shares
C12_Witness ==
    \E p \in Procs :
        /\ proc[p].pc = "done"
        /\ proc[p].req.action = "transfer-shares"
        /\ proc[p].resp.kind = "SeriesRequired"
        /\ NoSeriesGiven(proc[p].req)
        /\ \E r \in share_transactions :
              /\ r.shareholder_id = DbInt(proc[p].req.from_shareholder_id)
              /\ r.stock_type = upper(proc[p].req.stock_type)

\* the step in which invocation p leaves validateStockTypeAndSeries
LeavesValidation(p) ==
    /\ proc[p].pc \in {"type", "series"}
    /\ proc[p].req.action \in WriteActions
    /\ proc'[p].pc \notin {"type", "series"}
    /\ proc'[p].resp.kind # "Timeout"

\* the entity has no active stock type with the code the request names
NoActiveType(p) == ~\E t \in NamedTypes(p) : t.is_active

\* the request gives a series label under which the named type has no active
\* series
NoActiveSeries(p) ==
    /\ normalizeSeries(proc[p].req.series) # Null
    /\ ~\E t \in NamedTypes(p), x \in entity_stock_type_series :
          /\ x.entity_stock_type_id = t.id
          /\ x.series = normalizeSeries(proc[p].req.series)
          /\ x.is_active

\* C13: a write request is rejected and appends no row when the entity has no
\* active stock type with the given code, or when a series label is given for
\* which the type has no active series.
C13_UnknownTypeOrSeriesRejected ==
    [][\A p \in Procs :
          (LeavesValidation(p) /\ (NoActiveType(p) \/ NoActiveSeries(p)))
          => /\ proc'[p].pc = "done"
             /\ proc'[p].resp.status = 500
             /\ proc'[p].resp.kind \in {"InvalidStockType", "InactiveStockType",
                                        "InvalidSeries", "InactiveSeries",
                                        "SeriesNotAllowed"}
             /\ proc'[p].nw = 0
             /\ share_transactions' = share_transactions]_vars

\* a request naming a deactivated series of an active type was rejected while
\* the log already held rows
C13_Witness ==
    \E p \in Procs :
        /\ proc[p].pc = "done"
        /\ proc[p].resp.kind = "InactiveSeries"
        /\ share_transactions # {}

\* C14: in every reachable state, after any sequence of ledger writes and
\* stock-type upsert/toggle operations, every transaction row whose stock type
\* has supports_series = true carries a non-null series, and every row whose
\* stock type has supports_series = false carries a null series.
C14_SeriesMatchesType ==
    \A r \in share_transactions, t \in entity_stock_types :
        (t.entity_id = r.entity_id /\ t.stock_type = r.stock_type) =>
            (t.supports_series <=> r.series # Null)

\* the shareholders a write request names
NamedHolders(req) ==
    IF req.action = "transfer-shares"
    THEN {DbInt(req.from_shareholder_id), DbInt(req.to_shareholder_id)}
    ELSE {DbInt(req.shareholder_id)}

\* the entity a request is served for
TargetEntity(req) ==
    IF req.token \in DOMAIN users
    THEN resolveTargetEntityId(users[req.token], req.entity_id) ELSE NoId

\* one of the named shareholders does not exist, belongs to another entity
\* than the target entity, or is inactive
NamesBadHolder(req) ==
    /\ req.action \in WriteActions
    /\ \E h \in NamedHolders(req) :
          ~\E s \in shareholders :
              s.id = h /\ s.entity_id = TargetEntity(req) /\ s.is_active

\* C15: a write request naming a shareholder (for a transfer: a sender or a
\* receiver) that does not exist, belongs to a different entity than the
\* target entity, or is inactive is rejected and appends no row.
C15_BadShareholderRejected ==
    [][\A p \in Procs : NamesBadHolder(proc[p].req) =>
          /\ proc'[p].req = proc[p].req =>
                /\ proc'[p].nw = 0
                /\ share_transactions' = share_transactions
                /\ proc'[p].pc \in {"auth", "holder", "done"}
                /\ proc'[p].resp.kind # "OK"
          /\ ( /\ proc[p].pc = "holder"
               /\ proc'[p].pc # "holder"
               /\ proc'[p].resp.kind # "Timeout" )
             => /\ proc'[p].pc = "done"
                /\ proc'[p].resp = Err(404, "ShareholderNotFound")]_vars

\* a transfer to a shareholder of another entity was rejected although the
\* sender held the shares
C15_Witness ==
    \E p \in Procs :
        /\ proc[p].pc = "done"
        /\ proc[p].req.action = "transfer-shares"
        /\ proc[p].resp.kind = "ShareholderNotFound"
        /\ \E s \in shareholders :
              /\ s.id = DbInt(proc[p].req.to_shareholder_id)
              /\ s.entity_id # proc[p].ent
        /\ Balance(DbInt(proc[p].req.from_shareholder_id),
                   upper(proc[p].req.stock_type), normalizeSeries(proc[p].req.series))
              >= sharesNum(proc[p].req)

\* the responses that reject a request for a validation or business-rule
\* reason
RejectKinds ==
    {"Unauthorized", "Forbidden", "RequiredFields", "SharesNotPositive",
     "EntityNotResolved", "SelfTransfer", "ShareholderNotFound", "InvalidStockType",
     "InactiveStockType", "SeriesRequired", "SeriesNotAllowed", "InvalidSeries",
     "InactiveSeries", "InsufficientShares"}

\* the positions of a handler at which it has not yet issued BEGIN or an INSERT
BeforeWrite == {"idle", "auth", "holder", "type", "series", "avail"}

\* C16: a write request that is rejected for a validation or business-rule
\* reason has performed no storage write when it is rejected: it is rejected
\* from a position before its first write, no step up to there changes the
\* log, the id sequence or a transaction, and the log after the request equals
\* the log before it.
C16_RejectedBeforeAnyWrite ==
    [][\A p \in Procs : proc[p].req.action \in WriteActions \/ proc[p].pc = "idle" =>
          /\ ( /\ proc[p].pc # "done"
               /\ proc'[p].pc = "done"
               /\ proc'[p].resp.kind \in RejectKinds )
             => /\ proc[p].pc \in BeforeWrite
                /\ proc'[p].nw = 0
                /\ proc'[p].resp.rows = {}
          /\ (proc[p].pc \in BeforeWrite /\ proc'[p] # proc[p])
             => /\ proc[p].nw = 0
                /\ share_transactions' = share_transactions
                /\ nextId' = nextId
                /\ conn' = conn]_vars

\* an overdrawing cancellation was rejected after the log had received rows
C16_Witness ==
    \E p \in Procs :
        /\ proc[p].pc = "done"
        /\ proc[p].req.action = "cancel-shares"
        /\ proc[p].resp.kind = "InsufficientShares"
        /\ share_transactions # {}
        /\ share_transactions = LogBefore(p)

\* C17: the transaction log is append-only: no operation modifies or removes
\* an existing transaction row, so every state's log contains, unchanged,
\* every row of the state before it.
C17_AppendOnly ==
    [][share_transactions \subseteq share_transactions']_vars


\* the ownership reports held as responses
Reports == {proc[p].resp.report : p \in {q \in Procs : proc[q].resp.kind = "Report"}}

\* C18: in every ownership report, whatever the log, the taxonomy (stock
\* types or series deactivated after shares were issued under them included)
\* and the filters, the grand total equals the sum of the column totals and
\* equals the sum of the listed shareholders' total_shares.
C18_TotalsAgree ==
    \A rep \in Reports :
        /\ rep.grand_total = SumOver(DOMAIN rep.column_totals, rep.column_totals)
        /\ rep.grand_total = SumOver(rep.shareholders, rep.total_shares)


\* the holding a report shows for a shareholder in a column
Reported(rep, id, col) ==
    IF col \in DOMAIN rep.holdings[id] THEN rep.holdings[id][col] ELSE 0

\* the columns a report's filters leave in scope
InScope(rep, col) ==
    /\ rep.params.entity_stock_type_id \in {NoId, col[1]}
    /\ rep.params.entity_stock_series_id \in {NoId, col[2]}

\* the sum of the signed quantities of a shareholder's rows for a column
SignedSum(id, col) ==
    SumShares({r \in share_transactions :
                  /\ r.shareholder_id = id
                  /\ ColKey(st_entity_stock_type_id(r), st_entity_stock_series_id(r)) = col})

\* C19: for every shareholder and every column of the ownership report, the
\* reported holding equals the signed sum of that shareholder's rows for the
\* column's (stock type, series): a cancellation row and the outgoing leg of
\* a transfer each lower the holding by their quantity.
C19_HoldingIsSignedSum ==
    \A rep \in Reports :
        \A id \in rep.shareholders, i \in DOMAIN rep.columns :
            InScope(rep, rep.columns[i])
               => Reported(rep, id, rep.columns[i]) = SignedSum(id, rep.columns[i])

\* C20: two ownership reports for the same entity and filters with no write
\* between them have the same columns in the same order, the same holdings
\* per shareholder, the same column totals and the same grand total.
C20_ReportsRepeatable ==
    \A a, b \in Reports :
        a.params = b.params
           => /\ a.columns = b.columns
              /\ a.holdings = b.holdings
              /\ a.column_totals = b.column_totals
              /\ a.grand_total = b.grand_total


\* the stock type and the series a column stands for
TypeOfColumn(col) == CHOOSE t \in entity_stock_types : t.id = col[1]
SeriesOfColumn(col) == CHOOSE x \in entity_stock_type_series : x.id = col[2]

\* alphabetical position of the type codes and series labels in use
Alphabetical(text) ==
    CASE text = "A" -> 1
      [] text = "B" -> 2
      [] text = "COMMON" -> 3
      [] text = "OPTION" -> 4
      [] text = "PREFERRED" -> 5
      [] text = "UNIT" -> 6
      [] text = "WARRANT" -> 7
      [] OTHER -> 8

\* COMMON, PREFERRED, WARRANT in that order, every other code after them
Priority(code) ==
    CASE code = "COMMON" -> 1
      [] code = "PREFERRED" -> 2
      [] code = "WARRANT" -> 3
      [] OTHER -> 4

\* column a comes before column b in the order the claim describes
ComesBefore(a, b) ==
    LET ta == TypeOfColumn(a)
        tb == TypeOfColumn(b)
    IN \/ Priority(ta.stock_type) < Priority(tb.stock_type)
       \/ /\ Priority(ta.stock_type) = Priority(tb.stock_type)
          /\ Alphabetical(ta.stock_type) < Alphabetical(tb.stock_type)
       \/ /\ ta.id = tb.id
          /\ a[2] # NoId /\ b[2] # NoId
          /\ Alphabetical(SeriesOfColumn(a).series) < Alphabetical(SeriesOfColumn(b).series)

\* the columns an entity's active taxonomy calls for: one per active series
\* of an active series-supporting type, one per other active type
ColumnsCalledFor(entity_id) ==
    LET active == {t \in entity_stock_types : t.entity_id = entity_id /\ t.is_active}
        ofSeries == {<<x.entity_stock_type_id, x.id>> :
                        x \in {z \in entity_stock_type_series : z.is_active}}
    IN {col \in ofSeries : \E t \in active : t.supports_series /\ t.id = col[1]}
       \cup {<<t.id, NoId>> : t \in {y \in active : ~y.supports_series}}

\* C21: the report's columns are ordered COMMON, PREFERRED, WARRANT first,
\* then the remaining active stock types alphabetically, and within a
\* series-supporting type by series label alphabetically; there is exactly
\* one column per active (type, series) pair of a series-supporting type and
\* exactly one per active type otherwise.
C21_ColumnOrder ==
    \A rep \in Reports :
        /\ \A i, j \in DOMAIN rep.columns :
              i < j => ComesBefore(rep.columns[i], rep.columns[j])
        /\ {rep.columns[i] : i \in DOMAIN rep.columns} = ColumnsCalledFor(1)


\* the shareholders of the entity reported on
OfEntity == {s.id : s \in {x \in shareholders : x.entity_id = 1}}

\* the keys under which a shareholder has rows
KeysOf(id) ==
    {ColKey(st_entity_stock_type_id(r), st_entity_stock_series_id(r)) :
        r \in {x \in share_transactions : x.shareholder_id = id}}

\* the shareholder's rows sum to zero under every key
ZeroEverywhere(id) == \A key \in KeysOf(id) : SignedSum(id, key) = 0

\* C22: a shareholder of the entity whose balance is zero in every column
\* (one without any transaction included) is omitted from the ownership
\* report when status=ACTIVE is requested and is listed when no status filter
\* or status=INACTIVE is given.
C22_ZeroBalanceListing ==
    \A rep \in Reports :
        \A id \in OfEntity :
            ZeroEverywhere(id)
               => /\ rep.params.status = "ACTIVE" => id \notin rep.shareholders
                  /\ rep.params.status \in {"ALL", "INACTIVE"} => id \in rep.shareholders


\* the shareholder's rows sum to more than zero under some key
HoldsShares(id) == \E key \in KeysOf(id) : SignedSum(id, key) > 0

\* C23: with status=INACTIVE the ownership report lists only shareholders
\* whose current balance is zero, none that holds a positive balance in any
\* column; with status=ACTIVE it lists only shareholders with a positive
\* current balance.
C23_StatusFilter ==
    \A rep \in Reports :
        /\ rep.params.status = "INACTIVE"
              => \A id \in rep.shareholders : ~HoldsShares(id)
        /\ rep.params.status = "ACTIVE"
              => \A id \in rep.shareholders : HoldsShares(id)


\* invocation p takes a step of a read: of a GET of the ledger function or of
\* an ownership report
ReadStep(p) ==
    /\ proc'[p] # proc[p]
    /\ \/ proc[p].req.action \in ReadActions
       \/ proc'[p].req.action \in ReadActions
       \/ proc'[p].resp.kind = "Report"

\* C24: the read operations (ownership report, ownership query, transaction
\* list, shareholder list and detail) never add, change or remove a
\* transaction row: the log is the same before and after each of their steps,
\* whatever the filters and whether they succeed or fail.
C24_ReadsLeaveLog ==
    [][\A p \in Procs : ReadStep(p) => share_transactions' = share_transactions]_vars

\* a read returned rows while a transfer's transaction held an uncommitted
\* row
C24_Witness ==
    \E p \in Procs, c \in Clients :
        /\ proc[p].resp.kind = "Read"
        /\ proc[p].resp.rows # {}
        /\ conn[c].pending # {}


\* C25: a successful transfer-shares response returns both persisted rows,
\* the transfer-out row and the transfer-in row, each with its
\* server-assigned id.
C25_TransferReturnsBothRows ==
    \A p \in Procs : Succeeded(p, "transfer-shares") =>
        /\ proc[p].resp.rows = {r.id : r \in AppendedBy(p)}
        /\ Cardinality(proc[p].resp.rows) = 2


\* no statement of any request is outstanding
Settled == \A q \in Procs : proc[q].pc \notin QueryPcs

\* C26: ledger writes that touch disjoint (shareholder, stock type, series)
\* keys are independent: in any interleaving of their storage round-trips
\* each gets the outcome it gets when served alone and the log ends with the
\* rows of both.  With no storage error, a request answered 201 has its
\* returned row in the log once no statement is outstanding.
C26_DisjointIndependent ==
    (faults = 0 /\ Settled)
       => \A p \in Procs :
             (proc[p].pc = "done" /\ proc[p].resp.kind = "OK")
                => proc[p].resp.rows \subseteq {r.id : r \in share_transactions}


\* the rows of the log that name a shareholder
HistoryOf(id) ==
    {r \in share_transactions :
        id \in {r.shareholder_id, r.from_shareholder_id, r.to_shareholder_id}}

\* C27: delete-shareholder hard-deletes only a shareholder without any
\* transaction row, also while an issue-shares or transfer-shares request
\* naming that shareholder is in flight: whenever a shareholder is removed,
\* the log holds no row of that shareholder and no row is removed with it.
C27_DeleteKeepsHistory ==
    [][\A s \in shareholders :
          (\A x \in shareholders' : x.id # s.id)
             => /\ HistoryOf(s.id) = {}
                /\ share_transactions' = share_transactions]_vars


\* ---------------------------------------------------------------- balance check
\* the invocations that reached the comparison of the available balance with
\* the requested quantity, and the balance they compared
Compared(p) ==
    /\ proc[p].pc = "done"
    /\ proc[p].req.action \in {"transfer-shares", "cancel-shares"}
    /\ proc[p].resp.kind \in {"OK", "InsufficientShares"}

ComparedBalance(p) ==
    IF proc[p].resp.kind = "OK" THEN proc[p].avail ELSE proc[p].resp.available

\* C28: for every reachable transaction log and every (shareholder, stock
\* type, series) key, the available balance that transfer-shares and
\* cancel-shares compare against the requested quantity equals the plain
\* signed sum of the rows of that key in the log the request found.
C28_AvailableIsSignedSum ==
    \A p \in Procs :
        Compared(p) =>
            ComparedBalance(p) = BalanceBefore(p, Holder(proc[p].req),
                                               proc[p].v.stock_type, proc[p].v.series)


\* ---------------------------------------------------------------- entity scope
\* rows written so far, committed or not
Written == share_transactions \cup UNION {conn[c].pending : c \in Clients}

\* the entity the rows of a request are to belong to
ScopeOf(req) ==
    IF users[req.token].role # "SUPER_ADMIN" THEN users[req.token].entity_id
    ELSE IF req.entity_id # NoId THEN req.entity_id
    ELSE users[req.token].entity_id

OfScope(r, entity_id) ==
    /\ r.entity_id = entity_id
    /\ \A id \in {r.shareholder_id, r.from_shareholder_id, r.to_shareholder_id} \ {NoId} :
          \E s \in shareholders : s.id = id /\ s.entity_id = entity_id

\* C29: every row appended by issue-shares, transfer-shares or cancel-shares
\* for a caller who is not SUPER_ADMIN has the caller's own entity as
\* entity_id and names only shareholders of that entity, whatever entity_id
\* the request body supplies; a SUPER_ADMIN's rows carry the supplied
\* entity_id, or the caller's own when none is supplied.
C29_RowsStayInScope ==
    [][\A r \in Written' \ Written :
          \E p \in Procs : /\ proc[p].pc \in {"insert", "out", "in"}
                           /\ proc'[p] # proc[p]
                           /\ OfScope(r, ScopeOf(proc[p].req))]_vars

\* an ADMIN's request that supplied another entity's id was served and its
\* row is in the log
C29_Witness ==
    \E p \in Procs :
        /\ proc[p].pc = "done"
        /\ proc[p].resp.kind = "OK"
        /\ users[proc[p].req.token].role # "SUPER_ADMIN"
        /\ proc[p].req.entity_id = 2
        /\ AppendedBy(p) # {}

C29_SuperAdminWitness ==
    \E p \in Procs :
        /\ proc[p].pc = "done"
        /\ proc[p].resp.kind = "OK"
        /\ users[proc[p].req.token].role = "SUPER_ADMIN"
        /\ proc[p].req.entity_id = 2
        /\ \E r \in AppendedBy(p) : r.entity_id = 2


\* ---------------------------------------------------------------- external ids
\* a create-shareholder request that gave no external_id has been answered
CreatedWithoutExternalId(p) ==
    /\ proc[p].pc = "done"
    /\ proc[p].req.action = "create-shareholder"
    /\ proc[p].req.external_id \in {Null, ""}
    /\ proc[p].resp.status \notin {400, 403}

\* C30: after any sequence of shareholder creations and deletions in an
\* entity, a create-shareholder request that gives no external_id is assigned
\* a generated external id that no other shareholder of the entity uses: the
\* creation succeeds and external ids stay unique per entity.
C30_GeneratedIdIsFree ==
    \A p \in Procs :
        CreatedWithoutExternalId(p) =>
            /\ proc[p].resp.kind = "OK"
            /\ \E s \in shareholders :
                  /\ s.id = proc[p].ret
                  /\ s.external_id \in {GeneratedIds[i] : i \in DOMAIN GeneratedIds}
                  /\ \A t \in shareholders :
                        t.entity_id = s.entity_id /\ t.external_id = s.external_id
                            => t.id = s.id

====
